---- MODULE Spec2Model ----
(***************************************************************************)
(* Model of the two Streamlit programs of the repository:                  *)
(*   app.py       pooled ledger (30 tokens shared by three rounds)         *)
(*   app_sim2.py  per-round ledger (8 / 4 / 4 tokens)                      *)
(* A session serves one of the two scripts (variable variant).  Every     *)
(* button handler of a page is one action; the state is the script's      *)
(* st.session_state.                                                      *)
(***************************************************************************)
EXTENDS Integers, Sequences, FiniteSets, TLC

VARIABLES
    variant,              \* which script the session runs: "app" or "sim2"
    last,                 \* the learner's last interaction and what it showed
    \* ---- app.py: st.session_state ----
    stage, idea_key, assumptions, ranked, round, tokens_total, tokens_spent,
    portfolio, results, ground_truth, validation_progress,
    \* ---- app_sim2.py ----
    dnd_list,             \* module-level name dnd_list: "None" or "lib"
    S,                    \* st.session_state.sim2
    backs,                \* times the learner went to an earlier stage, this run
    \* ---- both scripts ----
    prng,                 \* seed |-> the draws random.Random(seed) returns
    call                  \* a library function under test: inputs and output

appvars == <<stage, idea_key, assumptions, ranked, round, tokens_total,
             tokens_spent, portfolio, results, ground_truth,
             validation_progress>>
vars == <<variant, last, stage, idea_key, assumptions, ranked, round,
          tokens_total, tokens_spent, portfolio, results, ground_truth,
          validation_progress, dnd_list, S, backs, prng, call>>

None == "None"
Rounds == {1, 2, 3}

\* ---------------------------------------------------------------------
\* Generic helpers
\* ---------------------------------------------------------------------
RECURSIVE SumSeq(_)
SumSeq(s) == IF s = <<>> THEN 0 ELSE Head(s) + SumSeq(Tail(s))

Min(a, b) == IF a <= b THEN a ELSE b
Max(a, b) == IF a >= b THEN a ELSE b

\* variant of Pop: the last element is removed, whatever idx is
PopLast(s, idx) == [i \in 1..(Len(s) - 1) |-> s[i]]

\* list.pop(idx) with a 0-based idx
Pop(s, idx) == [i \in 1..(Len(s) - 1) |-> IF i <= idx THEN s[i] ELSE s[i + 1]]

\* ---------------------------------------------------------------------
\* app.py: catalog
\* ---------------------------------------------------------------------
D == "desirability"
F == "feasibility"
V == "viability"
Types == {D, F, V}

Asm(id, type) == [id |-> id, type |-> type]

IDEAS ==
    [home_comfort |->
        [assumptions |-> << Asm("A1", D), Asm("A2", D), Asm("A3", F),
                            Asm("A4", F), Asm("A5", V), Asm("A6", V),
                            Asm("A7", V), Asm("A8", F) >>,
         truth |-> [a \in {"A1","A2","A3","A4","A5","A6","A7","A8"} |->
                     CASE a = "A1" -> 2 [] a = "A2" -> 3 [] a = "A3" -> 2
                       [] a = "A4" -> 1 [] a = "A5" -> 2 [] a = "A6" -> 3
                       [] a = "A7" -> 2 [] a = "A8" -> 1]],
     landlord_energy |->
        [assumptions |-> << Asm("B1", D), Asm("B2", F), Asm("B3", D),
                            Asm("B4", F), Asm("B5", V), Asm("B6", V),
                            Asm("B7", D), Asm("B8", V), Asm("B9", F) >>,
         truth |-> [a \in {"B1","B2","B3","B4","B5","B6","B7","B8","B9"} |->
                     CASE a = "B2" -> 3 [] a = "B6" -> 3 [] OTHER -> 2]],
     installer_tools |->
        [assumptions |-> << Asm("C1", D), Asm("C2", D), Asm("C3", F),
                            Asm("C4", V), Asm("C5", F), Asm("C6", V),
                            Asm("C7", D), Asm("C8", F), Asm("C9", V) >>,
         truth |-> [a \in {"C1","C2","C3","C4","C5","C6","C7","C8","C9"} |->
                     CASE a = "C2" -> 3 [] a = "C9" -> 1 [] OTHER -> 2]]]

Exp(cost, days, fit) == [cost |-> cost, days |-> days, fit |-> fit]

EXPERIMENTS ==
    [landing   |-> Exp(3, 3, {D, V}),
     concierge |-> Exp(4, 7, {D, F}),
     wizard    |-> Exp(4, 7, {F, D}),
     preorder  |-> Exp(5, 10, {V, D}),
     expert    |-> Exp(2, 2, {F, V}),
     benchmark |-> Exp(3, 5, {F, D}),
     adsplit   |-> Exp(4, 5, {D}),
     diary     |-> Exp(3, 7, {D})]

\* ---------------------------------------------------------------------
\* Bounds of the model: the inputs the learner is given
\* ---------------------------------------------------------------------
\* accepted entries per round (a rejected request needs no bound)
MaxPortfolio == 3

\* ideas the learner chooses among
IdeaChoices == {"home_comfort", "landlord_energy"}

\* the (assumption, experiment) pair the learner schedules freely
MainPick(key) ==
    IF key = "home_comfort" THEN <<"A3", "preorder">> ELSE <<"B1", "landing">>

\* pairs the learner schedules at most once in a run
SidePicks(key) ==
    IF key = "home_comfort" THEN {<<"A1", "landing">>} ELSE {}

Menu(key) == {MainPick(key)} \cup SidePicks(key)

\* outcome of random.shuffle: the script reseeds the global generator with
\* 42 on every rerun, so the shuffle of a single session is this one
Shuffles(key) ==
    IF key = "home_comfort"
    THEN {[i \in 1..8 |-> IDEAS[key].assumptions[<<4, 5, 7, 8, 3, 6, 1, 2>>[i]]]}
    ELSE {[i \in 1..9 |->
             IDEAS[key].assumptions[<<4, 7, 8, 5, 9, 3, 6, 1, 2>>[i]]]}

\* rows of the ranking screen whose buttons the learner presses (0-based)
MoveIdx == {0}

\* rng.random() in hundredths: the two extremes of [0, 1)
Draws == {0, 99}

\* <<first, second>> draws of an entry: success with a strong signal,
\* success with a weak one, failure (the second draw is then not read)
DrawPairs == {<<0, 0>>, <<0, 99>>, <<99, 99>>}

\* run_round seeds its generator with 100 + round_idx
RoundSeeds == {100 + r : r \in Rounds}

\* random.Random(seed): what the generator returns is fixed by the seed;
\* <<first, second>> are the draws an entry reads
Random(seed) == prng[seed]

\* the draws of round round_idx with n entries, the entries of a round
\* drawing alike
RoundDraws(round_idx, n) == [i \in 1..n |-> Random(100 + round_idx)]

\* ---------------------------------------------------------------------
\* app.py: utilities
\* ---------------------------------------------------------------------
\* variant of get_assumption: the default record for every id
get_assumption_default(aid) == [id |-> aid, type |-> D]

get_assumption(aid) ==
    IF \E i \in 1..Len(assumptions) : assumptions[i].id = aid
    THEN assumptions[CHOOSE i \in 1..Len(assumptions) :
                        /\ assumptions[i].id = aid
                        /\ \A j \in 1..(i - 1) : assumptions[j].id # aid]
    ELSE [id |-> aid, type |-> D]

RECURSIVE scheduled_cost_of(_)
scheduled_cost_of(entries) ==
    IF entries = <<>> THEN 0
    ELSE EXPERIMENTS[Head(entries)[2]].cost + scheduled_cost_of(Tail(entries))

planned_spend ==
    tokens_spent + scheduled_cost_of(portfolio[1])
                 + scheduled_cost_of(portfolio[2])
                 + scheduled_cost_of(portfolio[3])

pool_remaining == tokens_total - planned_spend

\* ---------------------------------------------------------------------
\* The learner's last interaction: the button pressed, its arguments, and
\* what the handler answered (toast / warning / return value / display)
\* ---------------------------------------------------------------------
Did(op, k, aid, ek, ok, out) ==
    [op |-> op, k |-> k, aid |-> aid, ek |-> ek, ok |-> ok, out |-> out]

NoLast == Did("none", 0, None, None, TRUE, <<>>)

\* ---------------------------------------------------------------------
\* app.py: session state and simulation engine
\* ---------------------------------------------------------------------
init_state ==
    /\ stage = "intro"
    /\ idea_key = None
    /\ assumptions = <<>>
    /\ ranked = <<>>
    /\ round = 1
    /\ tokens_total = 30
    /\ tokens_spent = 0
    /\ portfolio = [r \in Rounds |-> <<>>]
    /\ results = [r \in Rounds |-> <<>>]
    /\ ground_truth = <<>>
    /\ validation_progress = [t \in Types |-> 0]

base_success(risk) ==
    CASE risk = 3 -> 35 [] risk = 2 -> 55 [] risk = 1 -> 75

\* variant of simulate_result_p: the ceiling of 0.95 is not applied
simulate_result_p_uncapped(risk, fit) == base_success(risk) + 25 * fit

\* the success chance of simulate_result, in hundredths:
\* p = min(base_success + 0.25 * fit, 0.95)
simulate_result_p(risk, fit) == Min(base_success(risk) + 25 * fit, 95)

\* variant of simulate_result: a success is "strong" on the second draw
\* alone, the experiment fitting or not
simulate_result_unfitted(aid, ek, rng) ==
    LET a       == get_assumption(aid)
        e       == EXPERIMENTS[ek]
        risk    == IF aid \in DOMAIN ground_truth THEN ground_truth[aid] ELSE 2
        fit     == IF a.type \in e.fit THEN 1 ELSE 0
        success == rng[1] < simulate_result_p(risk, fit)
        signal  == IF ~success THEN "no-signal"
                   ELSE IF rng[2] < 80 THEN "strong" ELSE "weak"
    IN  [aid |-> aid, experiment |-> ek, success |-> success,
         signal |-> signal, quant |-> ek, cost |-> e.cost, days |-> e.days,
         assumption_type |-> a.type, fit |-> fit]

\* p in hundredths; rng = <<first draw, second draw>> in hundredths.  The
\* note is a function of (aid, ek, success, signal) and the quant line a
\* random text of the template selected by ek; neither is read again.
simulate_result(aid, ek, rng) ==
    LET a       == get_assumption(aid)
        e       == EXPERIMENTS[ek]
        risk    == IF aid \in DOMAIN ground_truth THEN ground_truth[aid] ELSE 2
        fit     == IF a.type \in e.fit THEN 1 ELSE 0
        p       == simulate_result_p(risk, fit)
        success == rng[1] < p
        signal  == IF ~success THEN "no-signal"
                   ELSE IF fit = 1 /\ rng[2] < 80 THEN "strong" ELSE "weak"
    IN  [aid |-> aid, experiment |-> ek, success |-> success,
         signal |-> signal, quant |-> ek, cost |-> e.cost, days |-> e.days,
         assumption_type |-> a.type, fit |-> fit]

\* the list run_round builds: one result per scheduled entry, in order
round_results(round_idx, rng) ==
    LET p == portfolio[round_idx]
    IN  [i \in 1..Len(p) |-> simulate_result(p[i][1], p[i][2], rng[i])]

\* variant of run_round: the round's scheduled entries stay in the portfolio
run_round_keeping(round_idx, rng) ==
    LET p   == portfolio[round_idx]
        res == round_results(round_idx, rng)
    IN  /\ tokens_spent' = tokens_spent + scheduled_cost_of(p)
        /\ validation_progress' =
             [t \in Types |-> validation_progress[t] +
                Cardinality({i \in 1..Len(p) :
                               res[i].success /\ res[i].assumption_type = t})]
        /\ results' = [results EXCEPT ![round_idx] = res]
        /\ portfolio' = portfolio

\* variant of run_round: the cost of the round is not added to tokens_spent
run_round_uncharged(round_idx, rng) ==
    LET p   == portfolio[round_idx]
        res == round_results(round_idx, rng)
    IN  /\ tokens_spent' = tokens_spent
        /\ validation_progress' =
             [t \in Types |-> validation_progress[t] +
                Cardinality({i \in 1..Len(p) :
                               res[i].success /\ res[i].assumption_type = t})]
        /\ results' = [results EXCEPT ![round_idx] = res]
        /\ portfolio' = [portfolio EXCEPT ![round_idx] = <<>>]

run_round(round_idx, rng) ==
    LET p   == portfolio[round_idx]
        res == round_results(round_idx, rng)
    IN  /\ tokens_spent' = tokens_spent + scheduled_cost_of(p)
        /\ validation_progress' =
             [t \in Types |-> validation_progress[t] +
                Cardinality({i \in 1..Len(p) :
                               res[i].success /\ res[i].assumption_type = t})]
        /\ results' = [results EXCEPT ![round_idx] = res]
        /\ portfolio' = [portfolio EXCEPT ![round_idx] = <<>>]

select_stage(k) ==
    CASE k = 1 -> "r1_select" [] k = 2 -> "r2_select" [] k = 3 -> "r3_select"
results_stage(k) ==
    CASE k = 1 -> "r1_results" [] k = 2 -> "r2_results" [] k = 3 -> "r3_results"

\* ---------------------------------------------------------------------
\* app.py: scoring
\* ---------------------------------------------------------------------
\* round(num / den) as Python rounds: to nearest, ties to even
round_half_even(num, den) ==
    LET q == num \div den
        r == num % den
    IN  IF 2 * r > den THEN q + 1
        ELSE IF 2 * r < den THEN q
        ELSE IF q % 2 = 0 THEN q ELSE q + 1

\* TARGET_CPLP (3.0) and TARGET_LEARNING_POINTS
TARGET_CPLP == 3
TARGET_LEARNING_POINTS == 10

all_results == results[1] \o results[2] \o results[3]

\* variant of resource_efficiency: a strong signal counts once, as a weak one
resource_efficiency_flat ==
    LET rs == all_results
        total_cost == SumSeq([i \in 1..Len(rs) |-> rs[i].cost])
        strong == Cardinality({i \in 1..Len(rs) : rs[i].signal = "strong"})
        weak == Cardinality({i \in 1..Len(rs) : rs[i].signal = "weak"})
        learning_points == strong + weak
    IN  [score |-> IF learning_points <= 0 THEN 0
                   ELSE IF TARGET_CPLP * learning_points >= total_cost THEN 25
                   ELSE round_half_even(25 * TARGET_CPLP * learning_points,
                                        total_cost),
         total_cost |-> total_cost, total_time |-> 0,
         learning_points |-> learning_points,
         strong |-> strong, weak |-> weak]

\* variant of resource_efficiency: efficiency_pct is not capped at 100
resource_efficiency_uncapped ==
    LET rs == all_results
        total_cost == SumSeq([i \in 1..Len(rs) |-> rs[i].cost])
        strong == Cardinality({i \in 1..Len(rs) : rs[i].signal = "strong"})
        weak == Cardinality({i \in 1..Len(rs) : rs[i].signal = "weak"})
        learning_points == strong * 2 + weak * 1
    IN  [score |-> IF learning_points <= 0 THEN 0
                   ELSE round_half_even(25 * TARGET_CPLP * learning_points,
                                        total_cost),
         total_cost |-> total_cost, total_time |-> 0,
         learning_points |-> learning_points, strong |-> strong,
         weak |-> weak]

\* variant of resource_efficiency: no early return for learning_points <= 0
resource_efficiency_unguarded ==
    LET rs == all_results
        total_cost == SumSeq([i \in 1..Len(rs) |-> rs[i].cost])
        strong == Cardinality({i \in 1..Len(rs) : rs[i].signal = "strong"})
        weak == Cardinality({i \in 1..Len(rs) : rs[i].signal = "weak"})
        learning_points == strong * 2 + weak * 1
    IN  [score |-> IF TARGET_CPLP * learning_points >= total_cost THEN 25
                   ELSE round_half_even(25 * TARGET_CPLP * learning_points,
                                        total_cost),
         total_cost |-> total_cost, total_time |-> 0,
         learning_points |-> learning_points, strong |-> strong,
         weak |-> weak]

\* variant of resource_efficiency_score: the score is rounded up
resource_efficiency_score_ceiling(total_cost, learning_points) ==
    IF learning_points <= 0 THEN 0
    ELSE IF TARGET_CPLP * learning_points >= total_cost THEN 25
    ELSE (25 * TARGET_CPLP * learning_points + total_cost - 1)
            \div total_cost

\* the score resource_efficiency returns for a total cost and a number of
\* learning points: 0 without learning points, else actual_cplp is
\* total_cost / learning_points, efficiency_pct is
\* min(100, 100 * TARGET_CPLP / actual_cplp) and the score is
\* round(25 * efficiency_pct / 100)
resource_efficiency_score(total_cost, learning_points) ==
    IF learning_points <= 0 THEN 0
    ELSE IF TARGET_CPLP * learning_points >= total_cost THEN 25
    ELSE round_half_even(25 * TARGET_CPLP * learning_points, total_cost)

\* the totals and the score of the recorded results
resource_efficiency ==
    LET rs == all_results
        total_cost == SumSeq([i \in 1..Len(rs) |-> rs[i].cost])
        longest(k) ==
            IF results[k] = <<>> THEN 0
            ELSE CHOOSE d \in {results[k][i].days : i \in 1..Len(results[k])} :
                    \A i \in 1..Len(results[k]) : results[k][i].days <= d
        total_time == longest(1) + longest(2) + longest(3)
        strong == Cardinality({i \in 1..Len(rs) : rs[i].signal = "strong"})
        weak == Cardinality({i \in 1..Len(rs) : rs[i].signal = "weak"})
        learning_points == strong * 2 + weak * 1
        score == resource_efficiency_score(total_cost, learning_points)
    IN  [score |-> score, total_cost |-> total_cost,
         total_time |-> total_time, learning_points |-> learning_points,
         strong |-> strong, weak |-> weak]

\* position of aid in sorted(truth.items(), key = (-risk, id)); the ids of
\* an idea sort as they are listed in IDEAS
truth_rank(aid) ==
    LET as == IDEAS[idea_key].assumptions
        pos(x) == CHOOSE i \in 1..Len(as) : as[i].id = x
        own == pos(aid)
    IN  1 + Cardinality({b \in DOMAIN ground_truth :
              \/ ground_truth[b] > ground_truth[aid]
              \/ ground_truth[b] = ground_truth[aid] /\ pos(b) < own})

\* variant of weight_for_pos: every position weighs 1.0
weight_for_pos_flat(pos) == 2

\* twice weight_for_pos(pos)
weight_for_pos(pos) == IF pos <= 3 THEN 4 ELSE IF pos <= 6 THEN 3 ELSE 2

\* j = truth_rank.get(aid, N) for the assumption at ranked position n
true_pos(n) ==
    IF ranked[n].id \in DOMAIN ground_truth
    THEN truth_rank(ranked[n].id) ELSE Len(ranked)

\* dist = abs(i - j)
distance(a, b) == IF a >= b THEN a - b ELSE b - a

\* base = 3 if dist == 0 else 2 if dist == 1 else 1 if dist == 2 else 0
points_for(dist) ==
    CASE dist = 0 -> 3 [] dist = 1 -> 2 [] dist = 2 -> 1 [] OTHER -> 0

\* the base points the loop over ranked_ids gives position n
base_at(n) == points_for(distance(n, true_pos(n)))

\* the base points of the first n ranked positions
base_points(n) == [i \in 1..n |-> base_at(i)]

\* achieved and max_points are kept doubled (the weights are halves)
risk_prioritization_score ==
    LET N == Len(ranked)
        base == base_points(N)
        achieved == SumSeq([i \in 1..N |-> base[i] * weight_for_pos(i)])
        max_points == SumSeq([i \in 1..N |-> 3 * weight_for_pos(i)])
    IN  [score |-> IF max_points > 0
                   THEN round_half_even(25 * achieved, max_points) ELSE 0,
         achieved |-> achieved, max_points |-> max_points,
         exact_matches |-> Cardinality({i \in 1..N : base[i] = 3}),
         within_one |-> Cardinality({i \in 1..N : base[i] = 2}),
         within_two |-> Cardinality({i \in 1..N : base[i] = 1})]

compute_score ==
    LET rp == risk_prioritization_score
        rs == all_results
        total_results == Len(rs)
        good_results ==
            Cardinality({i \in 1..Len(rs) :
               rs[i].assumption_type \in EXPERIMENTS[rs[i].experiment].fit})
        exp_fit == IF total_results > 0
                   THEN (25 * good_results) \div total_results ELSE 0
        re == resource_efficiency
        learn == Min(15, re.learning_points)
        top5 == {i \in 1..Len(ranked) : i <= 5}
        diversity == Cardinality({get_assumption(ranked[i].id).type :
                                    i \in top5})
        qual == 6 + (IF diversity >= 2 THEN 4 ELSE 0)
        total_score == Min(100, rp.score + exp_fit + re.score + learn + qual)
    IN  [total_score |-> total_score,
         breakdown |-> [AssumptionQuality |-> qual,
                        RiskPrioritization |-> rp.score,
                        ExperimentFit |-> exp_fit,
                        ResourceEfficiency |-> re.score,
                        LearningOutcome |-> learn],
         reasons |-> [AssumptionQuality |-> <<diversity>>,
                      RiskPrioritization |->
                        <<rp.achieved, rp.max_points, rp.exact_matches,
                          rp.within_one, rp.within_two>>,
                      ExperimentFit |-> <<good_results, total_results>>,
                      ResourceEfficiency |->
                        <<re.total_cost, re.learning_points>>,
                      LearningOutcome |->
                        <<re.strong, re.weak, re.learning_points>>]]

\* ---------------------------------------------------------------------
\* app.py: handlers
\* ---------------------------------------------------------------------
sim2_idle == UNCHANGED <<variant, dnd_list, S, backs, prng, call>>

\* screen_intro: "Start"
Start ==
    /\ variant = "app" /\ stage = "intro"
    /\ stage' = "choose"
    /\ last' = Did("start", 0, None, None, TRUE, <<>>)
    /\ UNCHANGED <<idea_key, assumptions, ranked, round, tokens_total,
                   tokens_spent, portfolio, results, ground_truth,
                   validation_progress>>
    /\ sim2_idle

\* variant of set_idea: the ledger, the results and the progress counters
\* of the previous run are kept
set_idea_keeping(key) ==
    /\ variant = "app" /\ stage = "choose"
    /\ \E shuffled \in Shuffles(key) :
          /\ assumptions' = shuffled
          /\ ranked' = shuffled
    /\ idea_key' = key
    /\ ground_truth' = IDEAS[key].truth
    /\ round' = 1
    /\ portfolio' = [r \in Rounds |-> <<>>]
    /\ stage' = "rank"
    /\ last' = Did("set_idea", 0, None, None, TRUE, <<>>)
    /\ UNCHANGED <<tokens_total, tokens_spent, results, validation_progress>>
    /\ UNCHANGED <<variant, dnd_list, S, backs, prng, call>>

\* screen_choose: "Choose" -> set_idea(key)
set_idea(key) ==
    /\ variant = "app" /\ stage = "choose"
    /\ \E shuffled \in Shuffles(key) :
          /\ assumptions' = shuffled
          /\ ranked' = shuffled
    /\ idea_key' = key
    /\ ground_truth' = IDEAS[key].truth
    /\ round' = 1
    /\ tokens_spent' = 0
    /\ portfolio' = [r \in Rounds |-> <<>>]
    /\ results' = [r \in Rounds |-> <<>>]
    /\ validation_progress' = [t \in Types |-> 0]
    /\ stage' = "rank"
    /\ last' = Did("set_idea", 0, None, None, TRUE, <<>>)
    /\ UNCHANGED tokens_total
    /\ sim2_idle

\* variant of move_item without the bounds test: the index wraps around
\* the list as a negative index does
move_item_wrapping(idx, direction) ==
    /\ variant = "app" /\ stage = "rank"
    /\ idx < Len(ranked)
    /\ LET new_idx == (idx + direction) % Len(ranked)
       IN  ranked' = [ranked EXCEPT ![idx + 1] = ranked[new_idx + 1],
                                   ![new_idx + 1] = ranked[idx + 1]]
    /\ last' = Did("move_item", idx, None, None, TRUE, <<direction>>)
    /\ UNCHANGED <<stage, idea_key, assumptions, round, tokens_total,
                   tokens_spent, portfolio, results, ground_truth,
                   validation_progress>>
    /\ sim2_idle

\* screen_rank: the up / down buttons of row idx
move_item(idx, direction) ==
    /\ variant = "app" /\ stage = "rank"
    /\ idx < Len(ranked)
    /\ LET new_idx == idx + direction
       IN  ranked' = IF 0 <= new_idx /\ new_idx < Len(ranked)
                     THEN [ranked EXCEPT ![idx + 1] = ranked[new_idx + 1],
                                         ![new_idx + 1] = ranked[idx + 1]]
                     ELSE ranked
    /\ last' = Did("move_item", idx, None, None, TRUE, <<direction>>)
    /\ UNCHANGED <<stage, idea_key, assumptions, round, tokens_total,
                   tokens_spent, portfolio, results, ground_truth,
                   validation_progress>>
    /\ sim2_idle

\* screen_rank: "Next: Round 1 - Select Tests"
RankNext ==
    /\ variant = "app" /\ stage = "rank"
    /\ stage' = "r1_select"
    /\ last' = Did("next", 1, None, None, TRUE, <<>>)
    /\ UNCHANGED <<idea_key, assumptions, ranked, round, tokens_total,
                   tokens_spent, portfolio, results, ground_truth,
                   validation_progress>>
    /\ sim2_idle

\* a side pick is scheduled, or was run, in this run
side_pick_used ==
    \E r \in Rounds :
       \/ \E i \in 1..Len(portfolio[r]) : portfolio[r][i] \in SidePicks(idea_key)
       \/ \E i \in 1..Len(results[r]) :
             <<results[r][i].aid, results[r][i].experiment>>
                \in SidePicks(idea_key)

\* variant of can_afford: the cost of the requested experiment is left out
can_afford_ignoring_cost(cost) == planned_spend <= tokens_total

\* the admission test of the "Add" button
can_afford(cost) == planned_spend + cost <= tokens_total

\* screen_round_select: "Add -> a" on the card of experiment ek
Add(round_idx, aid, ek) ==
    /\ variant = "app" /\ stage = select_stage(round_idx)
    /\ \E i \in 1..Len(ranked) : ranked[i].id = aid
    /\ IF can_afford(EXPERIMENTS[ek].cost)
       THEN /\ Len(portfolio[round_idx]) < MaxPortfolio
            /\ <<aid, ek>> \in SidePicks(idea_key) => ~side_pick_used
            /\ portfolio' = [portfolio EXCEPT
                               ![round_idx] = Append(@, <<aid, ek>>)]
            /\ last' = Did("add", round_idx, aid, ek, TRUE, <<>>)
       ELSE /\ portfolio' = portfolio
            /\ last' = Did("add", round_idx, aid, ek, FALSE, <<>>)
    /\ UNCHANGED <<stage, idea_key, assumptions, ranked, round, tokens_total,
                   tokens_spent, results, ground_truth, validation_progress>>
    /\ sim2_idle

\* screen_round_select: "Remove" on row idx of the scheduled list
Remove(round_idx, idx) ==
    /\ variant = "app" /\ stage = select_stage(round_idx)
    /\ idx < Len(portfolio[round_idx])
    /\ portfolio' = [portfolio EXCEPT ![round_idx] = Pop(@, idx)]
    /\ last' = Did("remove", round_idx, portfolio[round_idx][idx + 1][1],
                   portfolio[round_idx][idx + 1][2], TRUE, <<idx>>)
    /\ UNCHANGED <<stage, idea_key, assumptions, ranked, round, tokens_total,
                   tokens_spent, results, ground_truth, validation_progress>>
    /\ sim2_idle

\* variant of RunRound: a validated assumption is entered in the ground
\* truth as low risk
RunRound_relearning(round_idx) ==
    /\ variant = "app" /\ stage = select_stage(round_idx)
    /\ Len(portfolio[round_idx]) > 0
    /\ run_round(round_idx,
                 RoundDraws(round_idx, Len(portfolio[round_idx])))
    /\ ground_truth' =
          [a \in DOMAIN ground_truth |->
             IF \E i \in 1..Len(results'[round_idx]) :
                   /\ results'[round_idx][i].aid = a
                   /\ results'[round_idx][i].success
             THEN 1 ELSE ground_truth[a]]
    /\ stage' = results_stage(round_idx)
    /\ last' = Did("run_round", round_idx, None, None, TRUE, <<>>)
    /\ UNCHANGED <<idea_key, assumptions, ranked, round, tokens_total>>
    /\ UNCHANGED <<variant, dnd_list, S, backs, prng, call>>

\* variant of RunRound: the generator is not seeded, its draws are any
RunRound_unseeded(round_idx) ==
    /\ variant = "app" /\ stage = select_stage(round_idx)
    /\ Len(portfolio[round_idx]) > 0
    /\ \E d \in DrawPairs :
          run_round(round_idx, [i \in 1..Len(portfolio[round_idx]) |-> d])
    /\ stage' = results_stage(round_idx)
    /\ last' = Did("run_round", round_idx, None, None, TRUE, <<>>)
    /\ UNCHANGED <<idea_key, assumptions, ranked, round, tokens_total,
                   ground_truth>>
    /\ UNCHANGED <<variant, dnd_list, S, backs, prng, call>>

\* variant of RunRound: the button is enabled for an empty round too
RunRound_unguarded(round_idx) ==
    /\ variant = "app" /\ stage = select_stage(round_idx)
    /\ run_round(round_idx,
                 RoundDraws(round_idx, Len(portfolio[round_idx])))
    /\ stage' = results_stage(round_idx)
    /\ last' = Did("run_round", round_idx, None, None, TRUE, <<>>)
    /\ UNCHANGED <<idea_key, assumptions, ranked, round, tokens_total,
                   ground_truth>>
    /\ UNCHANGED <<variant, dnd_list, S, backs, prng, call>>

\* screen_round_select: "Run Round k" (the button is disabled while the
\* round has no scheduled entry)
RunRound(round_idx) ==
    /\ variant = "app" /\ stage = select_stage(round_idx)
    /\ Len(portfolio[round_idx]) > 0
    /\ run_round(round_idx,
                 RoundDraws(round_idx, Len(portfolio[round_idx])))
    /\ stage' = results_stage(round_idx)
    /\ last' = Did("run_round", round_idx, None, None, TRUE, <<>>)
    /\ UNCHANGED <<idea_key, assumptions, ranked, round, tokens_total,
                   ground_truth>>
    /\ sim2_idle

\* screen_round_results: "Next Round - Select" / "See Learning Summary &
\* Score" (not rendered when the round has no results)
ResultsNext(round_idx) ==
    /\ variant = "app" /\ stage = results_stage(round_idx)
    /\ results[round_idx] # <<>>
    /\ stage' = IF round_idx < 3 THEN select_stage(round_idx + 1) ELSE "score"
    /\ last' = Did("next", round_idx + 1, None, None, TRUE,
                   IF round_idx < 3 THEN <<>> ELSE compute_score)
    /\ UNCHANGED <<idea_key, assumptions, ranked, round, tokens_total,
                   tokens_spent, portfolio, results, ground_truth,
                   validation_progress>>
    /\ sim2_idle

\* screen_score drawn again on a rerun of the script ("Rerun"): it calls
\* compute_score and writes nothing
screen_score ==
    /\ variant = "app" /\ stage = "score"
    /\ last' = Did("score", 0, None, None, TRUE, compute_score)
    /\ UNCHANGED appvars
    /\ sim2_idle

\* screen_score: "Restart"
Restart ==
    /\ variant = "app" /\ stage = "score"
    /\ stage' = "intro"
    /\ last' = Did("restart", 0, None, None, TRUE, <<>>)
    /\ UNCHANGED <<idea_key, assumptions, ranked, round, tokens_total,
                   tokens_spent, portfolio, results, ground_truth,
                   validation_progress>>
    /\ sim2_idle

\* =====================================================================
\* app_sim2.py
\* =====================================================================
SAsm(id, tags, truth, risk) ==
    [id |-> id, tags |-> tags, truth |-> truth, risk |-> risk]

IdeaKeys == <<"Comfort-First Home Kit (Homeowners)",
             "Installer-Enablement System (HVAC channel)",
             "Landlord Energy Optimization Service (Property owners)">>

IDEA_CARDS ==
    (IdeaKeys[1] :> [assumptions |-> <<
           SAsm("A1", {"demand", "comfort"}, "M", "D"),
           SAsm("A2", {"wtp", "pricing", "comfort"}, "M", "D"),
           SAsm("A3", {"install_time", "feasibility"}, "H", "F"),
           SAsm("A4", {"compat", "feasibility"}, "M", "F"),
           SAsm("A5", {"comfort", "time_to_value"}, "L", "D"),
           SAsm("A6", {"noise", "quality"}, "M", "F"),
           SAsm("A7", {"channel", "self_install", "demand"}, "L", "D"),
           SAsm("A8", {"onboarding", "feasibility", "ux"}, "M", "F"),
           SAsm("A9", {"positioning", "comfort"}, "L", "D"),
           SAsm("A10", {"referral", "demand"}, "M", "V") >>] @@
     IdeaKeys[2] :> [assumptions |-> <<
           SAsm("B1", {"callbacks", "installer_econ"}, "L", "V"),
           SAsm("B2", {"callbacks", "evidence"}, "M", "V"),
           SAsm("B3", {"commission", "wtp_installer"}, "M", "V"),
           SAsm("B4", {"training", "feasibility"}, "H", "F"),
           SAsm("B5", {"install_time", "feasibility"}, "M", "F"),
           SAsm("B6", {"trust", "channel"}, "M", "D"),
           SAsm("B7", {"warranty", "risk"}, "M", "V"),
           SAsm("B8", {"unit_econ", "roi_installer"}, "M", "V"),
           SAsm("B9", {"rebates", "viability"}, "L", "V"),
           SAsm("B10", {"training", "adoption"}, "M", "D") >>] @@
     IdeaKeys[3] :> [assumptions |-> <<
           SAsm("C1", {"complaints", "ops"}, "M", "D"),
           SAsm("C2", {"payback", "viability"}, "H", "V"),
           SAsm("C3", {"pricing_model", "subscription"}, "M", "V"),
           SAsm("C4", {"tamper", "reliability"}, "M", "F"),
           SAsm("C5", {"deployment", "feasibility"}, "H", "F"),
           SAsm("C6", {"ops", "alerting", "activation"}, "M", "F"),
           SAsm("C7", {"rebates", "viability"}, "L", "V"),
           SAsm("C8", {"value", "positioning"}, "M", "D"),
           SAsm("C9", {"maintenance", "feasibility"}, "M", "F"),
           SAsm("C10", {"marketing", "demand"}, "L", "D") >>])

SExp(cost, fits) == [cost |-> cost, fits |-> fits]

EXPERIMENTS_sim2 ==
    ("Landing Page Test" :> SExp(2, {"demand", "wtp", "positioning", "pricing"}) @@
     "Concierge Trial" :> SExp(3, {"comfort", "time_to_value", "quality", "ux"}) @@
     "Prototype Demo" :> SExp(3, {"feasibility", "install_time", "compat", "noise", "onboarding"}) @@
     "Expert Interview" :> SExp(1, {"training", "ops", "warranty", "rebates", "channel", "trust"}) @@
     "Pre-Order Test" :> SExp(4, {"wtp", "pricing", "subscription"}) @@
     "Data Comparison" :> SExp(3, {"comfort", "evidence", "callbacks", "unit_econ", "payback"}) @@
     "Ad Split Test" :> SExp(2, {"positioning", "demand"}) @@
     "Diary / Usage Log" :> SExp(3, {"comfort", "time_to_value"}))

TOKENS == [r1 |-> 8, r2 |-> 4, r3 |-> 4]

RoundKeys == {"r1", "r2", "r3"}

STAGES == <<"intro", "idea", "rank", "r1_select", "r1_results", "r2_select",
            "r2_results", "r3_select", "r3_results", "summary", "score">>

\* STAGES.index(k), counted from 1
stage_index(k) == CHOOSE i \in 1..Len(STAGES) : STAGES[i] = k

\* ---------------------------------------------------------------------
\* Bounds of the model for app_sim2.py
\* ---------------------------------------------------------------------
\* idea cards the learner chooses among
IdeaChoices_sim2 == {IdeaKeys[1], IdeaKeys[2]}

\* the pair the learner schedules freely, per idea card
MainPick_sim2(key) ==
    IF key = IdeaKeys[1] THEN <<"A1", "Pre-Order Test">>
                         ELSE <<"B1", "Data Comparison">>

\* pairs the learner schedules at most once in a run
SidePicks_sim2(key) ==
    IF key = IdeaKeys[1] THEN {<<"A1", "Concierge Trial">>}
                         ELSE {<<"B4", "Prototype Demo">>}

Menu_sim2(key) == {MainPick_sim2(key)} \cup SidePicks_sim2(key)

\* statuses the learner selects instead of the suggested one, and the
\* rounds whose results page the learner does it on
StatusChoices == {"Validated"}
StatusRounds == {2}

\* stages whose stage-bar button the learner clicks
NavTargets == {"idea", "r1_select"}

\* orders the drag-and-drop list returns: the first two items exchanged
Reorders(ids) == {[ids EXCEPT ![1] = ids[2], ![2] = ids[1]]}

\* random.uniform(-0.08, 0.08) in hundredths: its two extremes
Noise == {-8, 8}

\* moves to an earlier stage the learner makes in one run
MaxBacks == 1

\* ---------------------------------------------------------------------
\* app_sim2.py: utility
\* ---------------------------------------------------------------------
clamp(x, lo, hi) == Max(lo, Min(hi, x))

\* variant of fit_score: the result is not cut at 1.0
fit_score_uncapped(exp_name, assumption_tags) ==
    35 + 22 * Cardinality(EXPERIMENTS_sim2[exp_name].fits
                            \cap assumption_tags)

\* in hundredths
fit_score(exp_name, assumption_tags) ==
    LET overlap == Cardinality(EXPERIMENTS_sim2[exp_name].fits
                                 \cap assumption_tags)
    IN  Min(100, 35 + 22 * overlap)

\* in hundredths
truth_bias(truth) ==
    CASE truth = "H" -> 35 [] truth = "M" -> 55 [] truth = "L" -> 75

\* p_success in millionths: clamp(0.12 + 0.65*fit*base + noise, 0.05, 0.97)
p_success(exp_name, assumption, noise) ==
    clamp(120000
            + 65 * fit_score(exp_name, assumption.tags)
                 * truth_bias(assumption.truth)
            + 10000 * noise,
          50000, 970000)

\* the random draws one call consumes: noise, the draw u compared with
\* p_success (hundredths), and the experiment's own numbers
SeededDraws ==
    [noise : Noise, u : Draws, jams : {0, 3}, install : {15}, cards : {3},
     complaints : {1, 2}]

\* random.seed(42) at the top of the script, run again on every rerun: the
\* draws simulate_result reads in the rerun of a "Run Round" click, the
\* picks of a run drawing alike
ScriptSeed == 42

\* the entry of rnd for a pick run_round skips
NoDraw == [noise |-> 0, u |-> 0, jams |-> 0, install |-> 0, cards |-> 0,
           complaints |-> 0]

\* the metric line is a random text of the template exp_name selects
simulate_result_sim2(exp_name, assumption, rnd) ==
    LET fit == fit_score(exp_name, assumption.tags)
        hit == 10000 * rnd.u < p_success(exp_name, assumption, rnd.noise)
        res(verdict, note) ==
            [metric |-> exp_name, verdict |-> verdict, note |-> note]
    IN  CASE exp_name = "Landing Page Test" ->
               res(IF hit THEN "positive" ELSE "weak",
                   IF fit > 60 THEN "Comfort headline outperformed"
                               ELSE "Signal present but modest")
          [] exp_name = "Concierge Trial" ->
               res(IF hit THEN "positive" ELSE "mixed", "Manual effort")
          [] exp_name = "Prototype Demo" ->
               res(IF hit /\ rnd.jams <= 1 /\ rnd.install <= 20
                   THEN "positive"
                   ELSE IF rnd.jams <= 2 THEN "mixed" ELSE "negative",
                   "Usability")
          [] exp_name = "Expert Interview" ->
               res(IF hit THEN "positive" ELSE "weak", "Directional")
          [] exp_name = "Pre-Order Test" ->
               res(IF hit /\ rnd.cards >= 3 THEN "positive" ELSE "weak", "WTP")
          [] exp_name = "Data Comparison" ->
               res(IF hit THEN "positive"
                   ELSE IF rnd.complaints <= 1 THEN "mixed" ELSE "weak",
                   "Quant baseline")
          [] exp_name = "Ad Split Test" ->
               res(IF hit THEN "positive" ELSE "weak", "Positioning")
          [] exp_name = "Diary / Usage Log" ->
               res(IF hit THEN "positive" ELSE "mixed", "Temporal pattern")
          [] OTHER -> res("weak", "Noisy read")

\* ---------------------------------------------------------------------
\* app_sim2.py: app state
\* ---------------------------------------------------------------------
EmptyRound == [picked |-> <<>>, results |-> <<>>, statuses |-> <<>>,
               tokens |-> 0]

NoLearning == [most_reduced |-> None, evidence |-> "", remaining |-> None,
               next_test |-> None, success_metric |-> ""]

init_state_sim2 ==
    [stage |-> "intro", idea_key |-> None, ranking_ids |-> <<>>,
     r1 |-> EmptyRound, r2 |-> EmptyRound, r3 |-> EmptyRound,
     assumption_status |-> <<>>, learning |-> NoLearning,
     score |-> <<>>, reasons |-> <<>>]

\* S["score"] is set (None is the empty dictionary <<>> here)
has_score(s) == DOMAIN s.score # {}

\* a dictionary with key k set to v
Put(dict, k, v) == [x \in DOMAIN dict \cup {k} |->
                      IF x = k THEN v ELSE dict[x]]

get_idea(s) == IDEA_CARDS[s.idea_key]

\* the keys of assumption_map()
amap_ids(s) ==
    IF s.idea_key = None THEN {}
    ELSE {get_idea(s).assumptions[i].id :
            i \in 1..Len(get_idea(s).assumptions)}

\* assumption_map()[a_id], for a_id in amap_ids
amap(s, a_id) ==
    LET as == get_idea(s).assumptions
    IN  as[CHOOSE i \in 1..Len(as) : as[i].id = a_id]

tokens_left(s, round_key) == TOKENS[round_key] - s[round_key].tokens

\* variant of add_pick: no comparison with the round's allotment
add_pick_uncapped(s, round_key, a_id, exp_name) ==
    <<TRUE,
      [s EXCEPT ![round_key].picked = Append(@, <<a_id, exp_name>>),
                ![round_key].tokens = @ + EXPERIMENTS_sim2[exp_name].cost]>>

\* variant of add_pick: the cost is charged before the allotment is checked
add_pick_charging(s, round_key, a_id, exp_name) ==
    LET cost == EXPERIMENTS_sim2[exp_name].cost
        charged == [s EXCEPT ![round_key].tokens = @ + cost]
    IN  IF s[round_key].tokens + cost > TOKENS[round_key]
        THEN <<FALSE, charged>>
        ELSE <<TRUE, [charged EXCEPT ![round_key].picked =
                                        Append(@, <<a_id, exp_name>>)]>>

\* variant of add_pick: every pick is entered in the ledger as one token
add_pick_flat(s, round_key, a_id, exp_name) ==
    LET cost == EXPERIMENTS_sim2[exp_name].cost
    IN  IF s[round_key].tokens + cost > TOKENS[round_key]
        THEN <<FALSE, s>>
        ELSE <<TRUE,
               [s EXCEPT ![round_key].picked = Append(@, <<a_id, exp_name>>),
                         ![round_key].tokens = @ + 1]>>

\* variant of add_pick: the three allotments are one pool, what a round
\* leaves unspent is available to the others
add_pick_carrying(s, round_key, a_id, exp_name) ==
    LET cost == EXPERIMENTS_sim2[exp_name].cost
    IN  IF s.r1.tokens + s.r2.tokens + s.r3.tokens + cost
             > TOKENS.r1 + TOKENS.r2 + TOKENS.r3
        THEN <<FALSE, s>>
        ELSE <<TRUE,
               [s EXCEPT ![round_key].picked = Append(@, <<a_id, exp_name>>),
                         ![round_key].tokens = @ + cost]>>

\* add_pick: <<ok, state after>>
add_pick(s, round_key, a_id, exp_name) ==
    LET cost == EXPERIMENTS_sim2[exp_name].cost
    IN  IF s[round_key].tokens + cost > TOKENS[round_key]
        THEN <<FALSE, s>>
        ELSE <<TRUE,
               [s EXCEPT ![round_key].picked = Append(@, <<a_id, exp_name>>),
                         ![round_key].tokens = @ + cost]>>

\* run_round over the picks from position i on; rnd[j] are the draws of
\* pick j.  <<completed, state after>>: next(...) raises StopIteration for
\* an id that is not in the chosen idea, and the loop ends there.
\* variant of run_round: every pick is simulated, with or without a result
RECURSIVE run_round_resimulating(_, _, _, _)
run_round_resimulating(s, round_key, i, rnd) ==
    LET picked == s[round_key].picked
    IN  IF i > Len(picked) THEN <<TRUE, s>>
        ELSE IF picked[i][1] \notin amap_ids(s) THEN <<FALSE, s>>
        ELSE run_round_resimulating(
               [s EXCEPT ![round_key].results =
                   Put(@, picked[i][1],
                       simulate_result_sim2(picked[i][2],
                                            amap(s, picked[i][1]), rnd[i]))],
               round_key, i + 1, rnd)

\* variant of run_round: a pick whose id is not in the chosen idea is
\* simulated as an assumption without tags, of medium truth
RECURSIVE run_round_defaulting(_, _, _, _)
run_round_defaulting(s, round_key, i, rnd) ==
    LET picked == s[round_key].picked
    IN  IF i > Len(picked) THEN <<TRUE, s>>
        ELSE IF picked[i][1] \in DOMAIN s[round_key].results
        THEN run_round_defaulting(s, round_key, i + 1, rnd)
        ELSE run_round_defaulting(
               [s EXCEPT ![round_key].results =
                   Put(@, picked[i][1],
                       simulate_result_sim2(
                          picked[i][2],
                          IF picked[i][1] \in amap_ids(s)
                          THEN amap(s, picked[i][1])
                          ELSE [tags |-> {}, truth |-> "M"],
                          rnd[i]))],
               round_key, i + 1, rnd)

RECURSIVE run_round_from(_, _, _, _)
run_round_from(s, round_key, i, rnd) ==
    LET picked == s[round_key].picked
    IN  IF i > Len(picked) THEN <<TRUE, s>>
        ELSE LET a_id == picked[i][1]
                 exp_name == picked[i][2]
             IN  IF a_id \in DOMAIN s[round_key].results
                 THEN run_round_from(s, round_key, i + 1, rnd)
                 ELSE IF a_id \notin amap_ids(s)
                 THEN <<FALSE, s>>
                 ELSE run_round_from(
                        [s EXCEPT ![round_key].results =
                            Put(@, a_id,
                                simulate_result_sim2(exp_name, amap(s, a_id),
                                                     rnd[i]))],
                        round_key, i + 1, rnd)

run_round_sim2(s, round_key, rnd) == run_round_from(s, round_key, 1, rnd)

\* the picks run_round calls simulate_result for: the first pick of each
\* assumption that has no result yet
simulated_picks(s, round_key) ==
    LET picked == s[round_key].picked
    IN  {i \in 1..Len(picked) :
           /\ picked[i][1] \notin DOMAIN s[round_key].results
           /\ \A j \in 1..(i - 1) : picked[j][1] # picked[i][1]}

\* ---------------------------------------------------------------------
\* app_sim2.py: what rendering a page writes into the state
\* ---------------------------------------------------------------------
\* render_results stops at the first pick whose id is not in the chosen
\* idea or has no result (KeyError); 0 when it renders every pick
first_bad_pick(s, round_key) ==
    LET picked == s[round_key].picked
        bad == {i \in 1..Len(picked) :
                  \/ picked[i][1] \notin amap_ids(s)
                  \/ picked[i][1] \notin DOMAIN s[round_key].results}
    IN  IF bad = {} THEN 0 ELSE CHOOSE i \in bad : \A j \in bad : i <= j

\* the picks whose status selector was rendered
rendered_picks(s, round_key) ==
    LET fb == first_bad_pick(s, round_key)
    IN  IF fb = 0 THEN 1..Len(s[round_key].picked) ELSE 1..(fb - 1)

render_results(s, round_key) ==
    LET picked == s[round_key].picked
        shown == {picked[i][1] : i \in rendered_picks(s, round_key)}
        old == s[round_key].statuses
        statuses == [a \in DOMAIN old \cup shown |->
                       IF a \in DOMAIN old THEN old[a] ELSE "Still Risky"]
        s1 == [s EXCEPT ![round_key].statuses = statuses]
    IN  IF first_bad_pick(s, round_key) # 0 THEN s1
        ELSE [s1 EXCEPT !.assumption_status =
                [a \in DOMAIN @ \cup DOMAIN statuses |->
                   IF a \in DOMAIN statuses THEN statuses[a] ELSE @[a]]]

\* page_summary reads assumption_map for every key of assumption_status
summary_renders(s) == DOMAIN s.assumption_status \subseteq amap_ids(s)

\* the summary form at its defaults (the learner leaves it unedited)
render_summary(s) ==
    IF ~summary_renders(s) THEN s
    ELSE [s EXCEPT !.learning =
            [most_reduced |-> IF @.most_reduced = None THEN "-"
                              ELSE @.most_reduced,
             remaining |-> IF @.remaining = None THEN "-" ELSE @.remaining,
             next_test |-> IF @.next_test = None THEN "Landing Page Test"
                           ELSE @.next_test,
             success_metric |-> @.success_metric,
             evidence |-> @.evidence]]

round_of_stage(k) ==
    CASE k \in {"r1_select", "r1_results"} -> "r1"
      [] k \in {"r2_select", "r2_results"} -> "r2"
      [] k \in {"r3_select", "r3_results"} -> "r3"
      [] OTHER -> None

\* the state after the script has rerun and drawn the page of s.stage
render(s) ==
    CASE s.stage \in {"r1_results", "r2_results", "r3_results"} ->
           render_results(s, round_of_stage(s.stage))
      [] s.stage = "summary" -> render_summary(s)
      [] OTHER -> s

\* ---------------------------------------------------------------------
\* app_sim2.py: scoring (exact arithmetic on hundredths)
\* ---------------------------------------------------------------------
round_key(k) == CASE k = 1 -> "r1" [] k = 2 -> "r2" [] k = 3 -> "r3"

all_picks(s) == s.r1.picked \o s.r2.picked \o s.r3.picked

\* position of the first x in seq (0 when absent)
IndexOf(seq, x) ==
    IF \E i \in 1..Len(seq) : seq[i] = x
    THEN CHOOSE i \in 1..Len(seq) :
            seq[i] = x /\ \A j \in 1..(i - 1) : seq[j] # x
    ELSE 0

risk_weight(r) == CASE r = "D" -> 10 [] r = "F" -> 6 [] r = "V" -> 3

\* <<points, n>> of status_points(rd) = points / max(1, n)
status_points(s, rd) ==
    LET picked == s[rd].picked
        counted == {i \in 1..Len(picked) :
                      /\ picked[i][1] \in DOMAIN s[rd].results
                      /\ picked[i][1] \in DOMAIN s[rd].statuses}
        good(i) ==
            LET v == s[rd].results[picked[i][1]].verdict
                stt == s[rd].statuses[picked[i][1]]
            IN  \/ v = "positive" /\ stt \in {"Validated", "Weakened"}
                \/ v = "negative" /\ stt \in {"Invalidated", "Still Risky"}
                \/ v = "mixed" /\ stt \in {"Weakened", "Still Risky"}
                \/ v = "weak" /\ stt \in {"Still Risky"}
    IN  <<Cardinality({i \in counted : good(i)}),
          Max(1, Cardinality(counted))>>

\* variant of weighted_total: Assumption Clarity and Risk Prioritization
\* weigh 0.30 each
weighted_total_overweight(clarity, prioritization, fit, efficiency, learning) ==
    (30 * clarity + 30 * prioritization + 25 * fit + 10 * efficiency
       + 10 * learning) \div 100

\* total = int(0.30*clarity + 0.25*prioritization + 0.25*fit
\*             + 0.10*efficiency + 0.10*learning)
weighted_total(clarity, prioritization, fit, efficiency, learning) ==
    (30 * clarity + 25 * prioritization + 25 * fit + 10 * efficiency
       + 10 * learning) \div 100

\* compute_scoring: the values it stores in S["score"] and S["reasons"]
scoring_of(s) ==
    LET picks == all_picks(s)
        tested_ids == {picks[i][1] : i \in 1..Len(picks)}
        clarity_score == IF Cardinality(tested_ids) >= 4 THEN 90 ELSE 80
        r1_ids == [i \in 1..Len(s.r1.picked) |-> s.r1.picked[i][1]]
        seq == [i \in 1..Len(r1_ids) |-> amap(s, r1_ids[i]).risk]
        n1 == Len(seq)
        bonus == (IF n1 > 0 /\ seq[1] = "D" THEN 1 ELSE 0)
               + (IF /\ IndexOf(seq, "V") > 0 /\ IndexOf(seq, "F") > 0
                     /\ IndexOf(seq, "F") < IndexOf(seq, "V")
                  THEN 1 ELSE 0)
        prioritization_score ==
            IF n1 = 0 THEN 0
            ELSE clamp((10 * (SumSeq([i \in 1..n1 |-> risk_weight(seq[i])])
                              + bonus * n1)) \div n1,
                       0, 100)
        fit_of(pick) == fit_score(pick[2], amap(s, pick[1]).tags)
        fit_score_val ==
            IF picks = <<>> THEN 0
            ELSE clamp(SumSeq([i \in 1..Len(picks) |-> fit_of(picks[i])])
                         \div Len(picks), 0, 100)
        unique_methods == Cardinality({picks[i][2] : i \in 1..Len(picks)})
        within_caps == IF /\ s.r1.tokens <= TOKENS.r1
                          /\ s.r2.tokens <= TOKENS.r2
                          /\ s.r3.tokens <= TOKENS.r3
                       THEN 100 ELSE 60
        efficiency_score ==
            clamp((60 * within_caps + 40 * clamp(25 * unique_methods, 0, 100))
                    \div 100, 0, 100)
        sp1 == status_points(s, "r1")
        sp2 == status_points(s, "r2")
        sp3 == status_points(s, "r3")
        learning_score ==
            IF s.r3.picked # <<>>
            THEN clamp((40 * sp2[1] * sp3[2] + 60 * sp3[1] * sp2[2])
                         \div (sp2[2] * sp3[2]), 0, 100)
            ELSE clamp((50 * sp1[1] * sp2[2] + 50 * sp2[1] * sp1[2])
                         \div (sp1[2] * sp2[2]), 0, 100)
        total == weighted_total(clarity_score, prioritization_score,
                                fit_score_val, efficiency_score,
                                learning_score)
    IN  [score |->
           [total |-> total,
            components |->
              [AssumptionClarity |-> clarity_score,
               RiskPrioritization |-> prioritization_score,
               ExperimentFit |-> fit_score_val,
               ResourceEfficiency |-> efficiency_score,
               LearningOutcome |-> learning_score]],
         reasons |->
           [AssumptionClarity |-> <<Cardinality(tested_ids), tested_ids>>,
            RiskPrioritization |-> seq,
            ExperimentFit |->
              <<{picks[i][2] : i \in 1..Len(picks)}, fit_score_val>>,
            ResourceEfficiency |->
              <<s.r1.tokens, s.r2.tokens, s.r3.tokens, unique_methods>>,
            LearningOutcome |-> learning_score >= 70]]

\* variant of compute_scoring: the optional third round is cleared
compute_scoring_consuming(s) ==
    [s EXCEPT !.score = scoring_of(s).score, !.reasons = scoring_of(s).reasons,
              !.r3 = EmptyRound]

compute_scoring(s) ==
    [s EXCEPT !.score = scoring_of(s).score, !.reasons = scoring_of(s).reasons]

\* amap[i] raises KeyError for a pick whose id is not in the chosen idea
scoring_raises(s) ==
    \E i \in 1..Len(all_picks(s)) : all_picks(s)[i][1] \notin amap_ids(s)

\* ---------------------------------------------------------------------
\* app_sim2.py: handlers.  Every handler ends in a rerun of the script,
\* which draws the page of the new stage (render).
\* ---------------------------------------------------------------------
app_idle == UNCHANGED appvars

sim2_step(op, k, aid, ek, ok, out, s) ==
    /\ IF op = "restart" THEN backs' = 0
       ELSE IF stage_index(s.stage) < stage_index(S.stage)
            THEN backs < MaxBacks /\ backs' = backs + 1
            ELSE backs' = backs
    /\ S' = render(s)
    /\ last' = Did(op, k, aid, ek, ok, out)
    /\ UNCHANGED <<variant, dnd_list, prng, call>>
    /\ app_idle

\* variant of S_Nav: the button of a later stage is obeyed too
S_Nav_anywhere(i) ==
    /\ variant = "sim2"
    /\ sim2_step("nav", i, None, None, TRUE, <<>>,
                 [S EXCEPT !.stage = STAGES[i]])

\* stage_bar: the button of STAGES[i]; the stage is set only if that stage
\* is the current one or an earlier one (back-only), else the page is
\* drawn again as it was
S_Nav(i) ==
    /\ variant = "sim2"
    /\ sim2_step("nav", i, None, None, TRUE, <<>>,
                 IF i <= stage_index(S.stage)
                 THEN [S EXCEPT !.stage = STAGES[i]] ELSE S)

\* page_intro: "Start"
S_Start ==
    /\ variant = "sim2" /\ S.stage = "intro"
    /\ sim2_step("start", 0, None, None, TRUE, <<>>, [S EXCEPT !.stage = "idea"])

\* page_idea: "Work on this"
S_PickIdea(key) ==
    /\ variant = "sim2" /\ S.stage = "idea"
    /\ LET as == IDEA_CARDS[key].assumptions
       IN  sim2_step("pick_idea", 0, None, None, TRUE, <<>>,
             [S EXCEPT !.idea_key = key,
                       !.assumption_status =
                          [a \in {as[i].id : i \in 1..Len(as)} |->
                             "Unassessed"],
                       !.ranking_ids = [i \in 1..Len(as) |-> as[i].id],
                       !.stage = "rank"])

\* page_rank stops before its widgets when dnd_list is None
rank_renders == dnd_list # None

\* page_rank: the drag-and-drop list returns a new order
S_Reorder(new_ids) ==
    /\ variant = "sim2" /\ S.stage = "rank" /\ rank_renders
    /\ new_ids # S.ranking_ids
    /\ sim2_step("reorder", 0, None, None, TRUE, <<>>,
                 [S EXCEPT !.ranking_ids = new_ids])

\* page_rank: "Back"
S_RankBack ==
    /\ variant = "sim2" /\ S.stage = "rank" /\ rank_renders
    /\ sim2_step("back", 0, None, None, TRUE, <<>>, [S EXCEPT !.stage = "idea"])

\* page_rank: "Proceed to Round 1"
S_RankProceed ==
    /\ variant = "sim2" /\ S.stage = "rank" /\ rank_renders
    /\ sim2_step("next", 1, None, None, TRUE, <<>>,
                 [S EXCEPT !.stage = "r1_select"])

\* a side pick is among the picks of this run
side_pick_used_sim2 ==
    \E i \in 1..Len(all_picks(S)) :
       all_picks(S)[i] \in SidePicks_sim2(S.idea_key)

\* render_experiment_cards: "Use on a_id" on the card of exp_name
S_Add(k, a_id, exp_name) ==
    /\ variant = "sim2" /\ S.stage = select_stage(k)
    /\ \E i \in 1..Len(S.ranking_ids) : S.ranking_ids[i] = a_id
    /\ LET r == add_pick(S, round_key(k), a_id, exp_name)
       IN  /\ r[1] /\ <<a_id, exp_name>> \in SidePicks_sim2(S.idea_key)
                => ~side_pick_used_sim2
           /\ sim2_step("add", k, a_id, exp_name, r[1], <<>>, r[2])

\* page_rK_select: "Back to ..."
S_SelectBack(k) ==
    /\ variant = "sim2" /\ S.stage = select_stage(k)
    /\ sim2_step("back", k, None, None, TRUE, <<>>,
                 [S EXCEPT !.stage = IF k = 1 THEN "rank"
                                      ELSE results_stage(k - 1)])

\* the draws of the picks of a run: those of the seeded generator for a
\* pick run_round simulates
run_draws(s, rk) ==
    [i \in 1..Len(s[rk].picked) |->
       IF i \in simulated_picks(s, rk) THEN Random(ScriptSeed) ELSE NoDraw]

\* run_round completed and the results page follows, or it raised
run_outcome(k, r) ==
    IF r[1]
    THEN sim2_step("run_round", k, None, None, TRUE, <<>>,
                   [r[2] EXCEPT !.stage = results_stage(k)])
    ELSE sim2_step("run_round", k, None, None, FALSE, <<"StopIteration">>,
                   r[2])

\* page_rK_select: "Run Round K"
S_Run(k) ==
    /\ variant = "sim2" /\ S.stage = select_stage(k)
    /\ LET picked == S[round_key(k)].picked
       IN  IF picked = <<>>
           THEN sim2_step("run_round", k, None, None, FALSE, <<"warning">>, S)
           ELSE run_outcome(k, run_round_sim2(S, round_key(k),
                                              run_draws(S, round_key(k))))

\* render_results: the status selector of a_id
S_SetStatus(k, a_id, status) ==
    /\ variant = "sim2" /\ S.stage = results_stage(k)
    /\ \E i \in rendered_picks(S, round_key(k)) :
          S[round_key(k)].picked[i][1] = a_id
    /\ S[round_key(k)].statuses[a_id] # status
    /\ sim2_step("set_status", k, a_id, None, TRUE, <<status>>,
                 [S EXCEPT ![round_key(k)].statuses[a_id] = status])

\* the buttons under render_results exist when it drew every pick
results_render(k) == first_bad_pick(S, round_key(k)) = 0

\* page_rK_results: "Back to Round K selection"
S_ResultsBack(k) ==
    /\ variant = "sim2" /\ S.stage = results_stage(k) /\ results_render(k)
    /\ sim2_step("back", k, None, None, TRUE, <<>>,
                 [S EXCEPT !.stage = select_stage(k)])

\* page_rK_results: "Proceed to ..."
S_ResultsProceed(k) ==
    /\ variant = "sim2" /\ S.stage = results_stage(k) /\ results_render(k)
    /\ sim2_step("next", k + 1, None, None, TRUE, <<>>,
                 [S EXCEPT !.stage = IF k < 3 THEN select_stage(k + 1)
                                      ELSE "summary"])

\* page_r2_results: "Skip to Learning Summary"
S_Skip ==
    /\ variant = "sim2" /\ S.stage = "r2_results" /\ results_render(2)
    /\ sim2_step("skip", 0, None, None, TRUE, <<>>,
                 [S EXCEPT !.stage = "summary"])

\* variant of S_Submit: the score page is entered without compute_scoring
S_Submit_unscored ==
    /\ variant = "sim2" /\ S.stage = "summary" /\ summary_renders(S)
    /\ sim2_step("score", 0, None, None, TRUE, <<>>,
                 [S EXCEPT !.stage = "score"])

\* page_summary: "Submit & score"
S_Submit ==
    /\ variant = "sim2" /\ S.stage = "summary" /\ summary_renders(S)
    /\ IF scoring_raises(S)
       THEN sim2_step("score", 0, None, None, FALSE, <<"KeyError">>, S)
       ELSE sim2_step("score", 0, None, None, TRUE, scoring_of(S),
                      [compute_scoring(S) EXCEPT !.stage = "score"])

\* page_score: "Restart Simulation"
S_Restart ==
    /\ variant = "sim2" /\ S.stage = "score" /\ has_score(S)
    /\ sim2_step("restart", 0, None, None, TRUE, <<>>, init_state_sim2)

\* page_score: "Back to Learning Summary"
S_BackToSummary ==
    /\ variant = "sim2" /\ S.stage = "score" /\ has_score(S)
    /\ sim2_step("back", 0, None, None, TRUE, <<>>,
                 [S EXCEPT !.stage = "summary"])

NextSim2 ==
    \/ \E i \in {stage_index(t) : t \in NavTargets} : S_Nav(i)
    \/ S_Start
    \/ \E key \in IdeaChoices_sim2 : S_PickIdea(key)
    \/ \E new_ids \in Reorders(S.ranking_ids) : S_Reorder(new_ids)
    \/ S_RankBack
    \/ S_RankProceed
    \/ \E k \in Rounds : \E pick \in Menu_sim2(S.idea_key) :
          S_Add(k, pick[1], pick[2])
    \/ \E k \in Rounds : S_SelectBack(k)
    \/ \E k \in Rounds : S_Run(k)
    \/ \E k \in StatusRounds : \E a_id \in DOMAIN S.assumption_status :
          \E status \in StatusChoices :
             S_SetStatus(k, a_id, status)
    \/ \E k \in Rounds : S_ResultsBack(k)
    \/ \E k \in Rounds : S_ResultsProceed(k)
    \/ S_Skip
    \/ S_Submit
    \/ S_Restart
    \/ S_BackToSummary

NextApp ==
    \/ Start
    \/ \E key \in IdeaChoices : set_idea(key)
    \/ \E idx \in MoveIdx, direction \in {-1, 1} : move_item(idx, direction)
    \/ RankNext
    \/ \E k \in Rounds : \E pick \in Menu(idea_key) : Add(k, pick[1], pick[2])
    \/ \E k \in Rounds : \E idx \in 0..(MaxPortfolio - 1) : Remove(k, idx)
    \/ \E k \in Rounds : RunRound(k)
    \/ \E k \in Rounds : ResultsNext(k)
    \/ Restart
    \/ screen_score

\* The committed app_sim2.py forces dnd_list to None (FORCE_NO_DND, "TEMP"),
\* and page_rank then stops before its buttons; "lib" is the script with
\* that override lifted and streamlit-dnd-list installed, the only one in
\* which the pages after "rank" are drawn.
DndBuilds == {None, "lib"}

\* the generators a session can meet: app.py makes one per round, with the
\* seed 100 + round_idx; app_sim2.py reseeds the module generator
Generators(v) ==
    IF v = "app" THEN [RoundSeeds -> DrawPairs]
                 ELSE [{ScriptSeed} -> SeededDraws]

\* no library function is under test
NoCall == [fn |-> None]

Init ==
    /\ variant \in {"app", "sim2"}
    /\ last = NoLast
    /\ init_state
    /\ dnd_list \in IF variant = "sim2" THEN DndBuilds ELSE {None}
    /\ S = init_state_sim2
    /\ backs = 0
    /\ prng \in Generators(variant)
    /\ call = NoCall

Next == NextApp \/ NextSim2

Spec == Init /\ [][Next]_vars

\* ---------------------------------------------------------------------
\* The library functions on their own: one call of a function on inputs
\* drawn from the catalogs, the session not started
\* ---------------------------------------------------------------------
\* random.uniform(-0.08, 0.08) in hundredths, every hundredth of the range
FnNoise == -8..8

\* the tags of the experiments' "fits" lists, and one tag none of them has
FnTags == UNION {EXPERIMENTS_sim2[e].fits : e \in DOMAIN EXPERIMENTS_sim2}
              \cup {"other"}

\* tag lists given to fit_score: the empty one, those of one to three tags
\* and each experiment's whole "fits" list
FnTagSets ==
    {{}} \cup {{a, b, c} : a, b, c \in FnTags}
         \cup {EXPERIMENTS_sim2[e].fits : e \in DOMAIN EXPERIMENTS_sim2}

\* the assumptions of the three idea cards
CardAssumptions ==
    UNION {{IDEA_CARDS[k].assumptions[i] :
              i \in DOMAIN IDEA_CARDS[k].assumptions} : k \in DOMAIN IDEA_CARDS}

FnCall(fn, exp, tags, type, truth, n) ==
    [fn |-> fn, exp |-> exp, tags |-> tags, type |-> type, truth |-> truth,
     n |-> n, done |-> FALSE, out |-> 0]

\* app.py simulate_result: an assumption's type, an experiment, a hidden risk
Calls_simulate_result ==
    {FnCall("simulate_result", ek, {}, t, "", risk) :
        ek \in DOMAIN EXPERIMENTS, t \in Types, risk \in 1..3}

\* app_sim2.py simulate_result: an assumption, an experiment, a noise draw
Calls_simulate_result_sim2 ==
    {FnCall("simulate_result_sim2", e, a.tags, "", a.truth, noise) :
        e \in DOMAIN EXPERIMENTS_sim2, a \in CardAssumptions,
        noise \in FnNoise}

Calls_fit_score ==
    {FnCall("fit_score", e, tags, "", "", 0) :
        e \in DOMAIN EXPERIMENTS_sim2, tags \in FnTagSets}

\* the cheapest experiment of app.py costs 2 tokens and the pool holds 30
MinCost == 2
MaxCost == 30

\* app.py resource_efficiency: a total cost and the learning points of
\* results of that cost (at most 2 per result, a result costs 2 or more)
Calls_resource_efficiency ==
    {x \in [fn : {"resource_efficiency"}, total_cost : MinCost..MaxCost,
            learning_points : 0..MaxCost, done : {FALSE}, out : {0}] :
        x.learning_points <= x.total_cost}

Calls == Calls_simulate_result \cup Calls_simulate_result_sim2
            \cup Calls_fit_score \cup Calls_resource_efficiency

Returns(out) ==
    /\ call' = [call EXCEPT !.done = TRUE, !.out = out]
    /\ UNCHANGED <<variant, last, appvars, dnd_list, S, backs, prng>>

\* the success chance simulate_result of app.py compares its draw with
Call_simulate_result ==
    /\ call.fn = "simulate_result"
    /\ ~call.done
    /\ Returns(simulate_result_p(call.n,
                   IF call.type \in EXPERIMENTS[call.exp].fit THEN 1 ELSE 0))

\* p_success of simulate_result of app_sim2.py
Call_simulate_result_sim2 ==
    /\ call.fn = "simulate_result_sim2"
    /\ ~call.done
    /\ Returns(p_success(call.exp, [tags |-> call.tags, truth |-> call.truth],
                         call.n))

Call_fit_score ==
    /\ call.fn = "fit_score"
    /\ ~call.done
    /\ Returns(fit_score(call.exp, call.tags))

\* the score of resource_efficiency of app.py
Call_resource_efficiency ==
    /\ call.fn = "resource_efficiency"
    /\ ~call.done
    /\ Returns(resource_efficiency_score(call.total_cost,
                                         call.learning_points))

InitFn ==
    /\ variant = "sim2"
    /\ last = NoLast
    /\ init_state
    /\ dnd_list = None
    /\ S = init_state_sim2
    /\ backs = 0
    /\ prng = <<>>
    /\ call \in Calls

NextFn ==
    \/ Call_simulate_result
    \/ Call_simulate_result_sim2
    \/ Call_fit_score
    \/ Call_resource_efficiency

SpecFn == InitFn /\ [][NextFn]_vars


\* =====================================================================
\* Properties
\* =====================================================================
\* round k has recorded results
executed(k) ==
    IF variant = "app" THEN results[k] # <<>>
    ELSE DOMAIN S[round_key(k)].results # {}

\* the entries scheduled in round k
portfolio_of(k) ==
    IF variant = "app" THEN portfolio[k] ELSE S[round_key(k)].picked

\* cost of the scheduled entries of round k of app.py, summed one by one
entries_cost(k) ==
    SumSeq([i \in 1..Len(portfolio[k]) |-> EXPERIMENTS[portfolio[k][i][2]].cost])

\* C1: in app.py, in every reachable state, tokens_spent plus the cost of
\* every scheduled and not yet run entry of the three rounds is at most
\* tokens_total, which is 30: pool_remaining() >= 0.
C1_PooledLedger ==
    variant = "app" =>
        /\ tokens_total = 30
        /\ tokens_spent + entries_cost(1) + entries_cost(2) + entries_cost(3)
              <= tokens_total
        /\ pool_remaining >= 0

\* the pool is committed to the last token and a further request was refused
C1_Witness ==
    /\ variant = "app"
    /\ tokens_spent > 0
    /\ tokens_spent + entries_cost(1) + entries_cost(2) + entries_cost(3) = 30
    /\ last.op = "add" /\ ~last.ok

\* C2: in app_sim2.py, in every reachable state and for each round r,
\* S[r]["tokens"] <= TOKENS[r] (8, 4, 4), so the tokens committed over the
\* run never exceed 16.
C2_PerRoundLedger ==
    variant = "sim2" =>
        /\ S.r1.tokens <= 8 /\ S.r2.tokens <= 4 /\ S.r3.tokens <= 4
        /\ \A r \in RoundKeys : S[r].tokens <= TOKENS[r]
        /\ S.r1.tokens + S.r2.tokens + S.r3.tokens <= 16

\* round 1 holds its whole allotment and a further request was refused
C2_Witness ==
    /\ variant = "sim2"
    /\ S.r1.tokens = TOKENS.r1
    /\ last.op = "add" /\ last.k = 1 /\ ~last.ok

\* C3: in both scripts a scheduling request whose cost exceeds the
\* remaining budget (the pool in app.py, the round's allotment in
\* app_sim2.py) is answered with a failure and changes nothing: no entry
\* is added to any round and the remaining tokens are what they were.
C3_RejectedRequest ==
    [][/\ ( /\ variant = "app" /\ last'.op = "add"
            /\ EXPERIMENTS[last'.ek].cost > pool_remaining )
          => /\ ~last'.ok
             /\ portfolio' = portfolio
             /\ tokens_spent' = tokens_spent
             /\ pool_remaining' = pool_remaining
       /\ ( /\ variant = "sim2" /\ last'.op = "add"
            /\ EXPERIMENTS_sim2[last'.ek].cost
                  > tokens_left(S, round_key(last'.k)) )
          => /\ ~last'.ok
             /\ \A r \in RoundKeys :
                   /\ S'[r].picked = S[r].picked
                   /\ S'[r].tokens = S[r].tokens
                   /\ tokens_left(S', r) = tokens_left(S, r)
       /\ ( last'.op = "add" /\ ~last'.ok )
          => /\ portfolio' = portfolio /\ tokens_spent' = tokens_spent
             /\ \A r \in RoundKeys : S'[r] = S[r]
      ]_vars

\* a request was refused while tokens remained, fewer than it costs
C3_Witness ==
    /\ variant = "app"
    /\ last.op = "add" /\ ~last.ok
    /\ 0 < pool_remaining
    /\ pool_remaining < EXPERIMENTS[last.ek].cost

\* C4: once round k has been executed its portfolio does not change within
\* the run: an attempt to add an entry to round k or to remove one from it
\* is refused and the round's entries stay as they are, also after a return
\* to the round's selection stage.
C4_ExecutedRoundImmutable ==
    [][ last'.op \notin {"restart", "set_idea"} =>
          \A k \in Rounds :
             executed(k) =>
                /\ portfolio_of(k)' = portfolio_of(k)
                /\ (last'.op \in {"add", "remove"} /\ last'.k = k)
                      => ~last'.ok
      ]_vars

\* C5: each round is executed once per run: after run_round has executed
\* round k, no action of the learner makes run_round execute round k
\* again.
C5_RoundRunsOnce ==
    [][ (last'.op = "run_round" /\ last'.ok) => ~executed(last'.k) ]_vars

\* C6: executing round k records one result per scheduled entry: the
\* number of results of round k is the number of its entries and each
\* entry's result comes from that entry's own experiment, also when two
\* entries name the same assumption.
C6_OneResultPerEntry ==
    [][ (last'.op = "run_round" /\ last'.ok) =>
          LET k == last'.k
          IN  IF variant = "app"
              THEN /\ Len(results'[k]) = Len(portfolio[k])
                   /\ \A i \in 1..Len(portfolio[k]) :
                         /\ results'[k][i].aid = portfolio[k][i][1]
                         /\ results'[k][i].experiment = portfolio[k][i][2]
              ELSE LET rd == S'[round_key(k)]
                   IN  /\ Cardinality(DOMAIN rd.results) = Len(rd.picked)
                       /\ \A i \in 1..Len(rd.picked) :
                             /\ rd.picked[i][1] \in DOMAIN rd.results
                             /\ rd.results[rd.picked[i][1]].metric
                                   = rd.picked[i][2]
      ]_vars

\* C7: a round is executed only when it has an entry: run_round is not
\* invoked for a round whose portfolio is empty, and the attempt leaves
\* the stage, the ledger and the results as they were.
C7_NoEmptyRun ==
    [][ last'.op = "run_round" =>
          /\ last'.ok => portfolio_of(last'.k) # <<>>
          /\ portfolio_of(last'.k) = <<>> =>
                /\ ~last'.ok
                /\ stage' = stage /\ S'.stage = S.stage
                /\ tokens_spent' = tokens_spent /\ results' = results
                /\ \A r \in RoundKeys :
                      /\ S'[r].tokens = S[r].tokens
                      /\ S'[r].results = S[r].results
      ]_vars

\* "Run Round 2" was pressed with nothing scheduled in round 2
C7_Witness ==
    /\ variant = "sim2"
    /\ last.op = "run_round" /\ last.k = 2 /\ ~last.ok
    /\ S.r2.picked = <<>>
    /\ S.stage = "r2_select"

\* C8: in app.py the removal of a scheduled entry of a round that has not
\* run is one step with its refund: after it exactly that entry is gone,
\* pool_remaining() is larger by exactly that entry's cost, tokens_spent
\* and all results are unchanged; and nothing is refunded for the entries
\* of an executed round.
C8_RemoveRefunds ==
    [][ variant = "app" =>
          /\ last'.op = "remove" =>
                LET k == last'.k
                    idx == last'.out[1] + 1
                    old == portfolio[k]
                IN  /\ ~executed(k)
                    /\ idx \in 1..Len(old)
                    /\ old[idx] = <<last'.aid, last'.ek>>
                    /\ Len(portfolio'[k]) = Len(old) - 1
                    /\ \A i \in 1..(Len(old) - 1) :
                          portfolio'[k][i] = IF i < idx THEN old[i]
                                             ELSE old[i + 1]
                    /\ \A j \in Rounds \ {k} : portfolio'[j] = portfolio[j]
                    /\ pool_remaining'
                          = pool_remaining + EXPERIMENTS[old[idx][2]].cost
                    /\ tokens_spent' = tokens_spent
                    /\ results' = results
          /\ pool_remaining' > pool_remaining
                => last'.op \in {"remove", "set_idea"}
          /\ last'.op # "set_idea" => tokens_spent' >= tokens_spent
      ]_vars

\* an entry that is not the last of its round was removed, in a round
\* scheduled after an earlier round had run
C8_Witness ==
    /\ variant = "app"
    /\ last.op = "remove" /\ last.out = <<0>>
    /\ tokens_spent > 0
    /\ portfolio[last.k] # <<>>
    /\ portfolio[last.k][1] # <<last.aid, last.ek>>

\* C9: a recorded result does not change: once a result is recorded for an
\* entry of a round, no later action of the run (running a round, going
\* back, setting a status, scoring) changes or removes it; it goes only at
\* the reset of the run (set_idea, init_state).
C9_ResultImmutable ==
    [][ last'.op \notin {"restart", "set_idea"} =>
          /\ \A k \in Rounds : results[k] # <<>> => results'[k] = results[k]
          /\ \A r \in RoundKeys : \A a \in DOMAIN S[r].results :
                /\ a \in DOMAIN S'[r].results
                /\ S'[r].results[a] = S[r].results[a]
      ]_vars

\* round 1 was run again after round 2 had recorded results
C9_Witness ==
    /\ variant = "sim2"
    /\ last.op = "run_round" /\ last.k = 1 /\ last.ok
    /\ DOMAIN S.r1.results # {}
    /\ DOMAIN S.r2.results # {}

\* C10: scoring reads the history and writes none of it: compute_score and
\* compute_scoring leave the ranking, every round's portfolio and results,
\* the ledger counters and the ground truth unchanged, and a second call on
\* the unchanged history returns the same total, category scores and
\* reasons.
C10_ScoringReadsOnly ==
    [][ last'.op = "score" =>
          /\ UNCHANGED <<ranked, portfolio, results, tokens_total,
                         tokens_spent, ground_truth, validation_progress>>
          /\ S'.ranking_ids = S.ranking_ids /\ S'.idea_key = S.idea_key
          /\ \A r \in RoundKeys : S'[r] = S[r]
          /\ variant = "app" =>
                /\ last'.out = compute_score
                /\ last'.out = last.out
          /\ (variant = "sim2" /\ last'.ok) =>
                /\ last'.out = scoring_of(S')
                /\ last'.out.score = S'.score
                /\ last'.out.reasons = S'.reasons
      ]_vars

\* "Submit & score" was pressed on a history with a scheduled third round
C10_Witness ==
    /\ variant = "sim2"
    /\ last.op = "score" /\ last.ok
    /\ S.stage = "score"
    /\ S.r3.picked # <<>>

\* the total and the five categories of app.py within their maxima
app_score_within(c) ==
    /\ c.total_score \in 0..100
    /\ c.breakdown.AssumptionQuality \in 0..10
    /\ c.breakdown.RiskPrioritization \in 0..25
    /\ c.breakdown.ExperimentFit \in 0..25
    /\ c.breakdown.ResourceEfficiency \in 0..25
    /\ c.breakdown.LearningOutcome \in 0..15

\* the total and the five components of app_sim2.py within [0, 100]
sim2_score_within(sc) ==
    /\ sc.total \in 0..100
    /\ \A c \in DOMAIN sc.components : sc.components[c] \in 0..100

\* C11: in every reachable state the scores computed from it are in
\* range.  app.py: total in [0,100], Assumption Quality <= 10, Risk
\* Prioritization <= 25, Experiment Fit <= 25, Resource Efficiency <= 25,
\* Learning Outcome <= 15, none negative.  app_sim2.py: the total and
\* every component in [0,100], for the score compute_scoring would store
\* and for the one it has stored.
C11_ScoresWithinRange ==
    /\ variant = "app" => app_score_within(compute_score)
    /\ (variant = "sim2" /\ ~scoring_raises(S)) =>
          sim2_score_within(scoring_of(S).score)
    /\ (variant = "sim2" /\ has_score(S)) => sim2_score_within(S.score)

\* the score page of app.py shows Resource Efficiency at its maximum, from
\* a cost per learning point below the target
C11_Witness ==
    /\ variant = "app" /\ last.op = "score"
    /\ last.out.breakdown.ResourceEfficiency = 25
    /\ TARGET_CPLP * last.out.reasons.ResourceEfficiency[2]
          > last.out.reasons.ResourceEfficiency[1]

\* C12: scoring is defined in the degenerate cases.  app.py: with no
\* recorded result Experiment Fit and Resource Efficiency are 0, and with
\* learning_points = 0 Resource Efficiency is 0.  app_sim2.py: with no
\* pick Experiment Fit, Risk Prioritization and Learning Outcome are 0.
C12_DegenerateScore ==
    /\ variant = "app" =>
          /\ all_results = <<>> =>
                /\ compute_score.breakdown.ExperimentFit = 0
                /\ compute_score.breakdown.ResourceEfficiency = 0
          /\ resource_efficiency.learning_points = 0 =>
                compute_score.breakdown.ResourceEfficiency = 0
    /\ (variant = "sim2" /\ all_picks(S) = <<>>) =>
          /\ scoring_of(S).score.components.ExperimentFit = 0
          /\ scoring_of(S).score.components.RiskPrioritization = 0
          /\ scoring_of(S).score.components.LearningOutcome = 0

\* the score page of app.py after three rounds without a signal: tokens
\* were spent and no learning point was earned
C12_Witness ==
    /\ variant = "app" /\ last.op = "score"
    /\ last.out.reasons.ResourceEfficiency[2] = 0
    /\ last.out.reasons.ResourceEfficiency[1] > 0
    /\ last.out.breakdown.ResourceEfficiency = 0

\* C13: the success chance simulate_result compares its draw with is
\* between 0.05 and 0.95, for every assumption and experiment of the
\* catalogs, every hidden risk and every noise draw (app.py in hundredths,
\* app_sim2.py in millionths).
C13_SuccessChanceBounded ==
    call.done =>
        /\ call.fn = "simulate_result" => call.out \in 5..95
        /\ call.fn = "simulate_result_sim2" => call.out \in 50000..950000

\* the ceiling binds: a low-risk assumption with a fitting experiment,
\* 0.75 + 0.25 cut to 0.95
C13_Witness ==
    /\ call.done
    /\ call.fn = "simulate_result"
    /\ call.n = 1
    /\ call.type \in EXPERIMENTS[call.exp].fit
    /\ call.out = 95

\* the number of tags the experiment's "fits" list shares with the tags
shared(exp_name, tags) ==
    Cardinality(EXPERIMENTS_sim2[exp_name].fits \cap tags)

\* C14: fit_score is between 0.35 and 1 for every experiment and tag
\* list, and a tag list sharing no more tags with the experiment than
\* the one given scores no higher.
C14_FitScoreMonotone ==
    (call.done /\ call.fn = "fit_score") =>
        /\ call.out \in 35..100
        /\ \A tags \in FnTagSets :
              shared(call.exp, tags) <= shared(call.exp, call.tags)
                  => fit_score(call.exp, tags) <= call.out

\* four shared tags: 0.35 + 4 * 0.22 is above 1 and the result is 1
C14_Witness ==
    /\ call.done
    /\ call.fn = "fit_score"
    /\ shared(call.exp, call.tags) = 4
    /\ call.out = 100

\* the experiment of result r is one that fits the type of its assumption
fits_type(r) == r.assumption_type \in EXPERIMENTS[r.experiment].fit

\* C15: (app.py) every recorded result has the signal "no-signal", "weak"
\* or "strong"; a result without success has "no-signal"; a "strong"
\* result is a success of an experiment that fits the assumption's type.
C15_SignalFollowsSuccess ==
    variant = "app" =>
        \A i \in 1..Len(all_results) :
            /\ all_results[i].signal \in {"no-signal", "weak", "strong"}
            /\ ~all_results[i].success => all_results[i].signal = "no-signal"
            /\ all_results[i].signal = "strong" =>
                  /\ all_results[i].success
                  /\ all_results[i].fit = 1
                  /\ fits_type(all_results[i])

\* the three cases side by side: a failed test, a success of an experiment
\* that does not fit, and a strong success of one that fits
C15_Witness ==
    /\ variant = "app"
    /\ \E i \in 1..Len(all_results) :
          ~all_results[i].success /\ all_results[i].signal = "no-signal"
    /\ \E i \in 1..Len(all_results) :
          /\ all_results[i].success
          /\ ~fits_type(all_results[i])
          /\ all_results[i].signal = "weak"
    /\ \E i \in 1..Len(all_results) :
          all_results[i].signal = "strong" /\ fits_type(all_results[i])

\* 2 for each "strong" and 1 for each "weak" result of rs, added up
RECURSIVE signal_points(_)
signal_points(rs) ==
    IF rs = <<>> THEN 0
    ELSE (CASE Head(rs).signal = "strong" -> 2
            [] Head(rs).signal = "weak" -> 1
            [] OTHER -> 0) + signal_points(Tail(rs))

recorded_points ==
    signal_points(results[1]) + signal_points(results[2])
        + signal_points(results[3])

\* C16: (app.py) learning_points is twice the number of "strong" results
\* plus the number of "weak" results of the three rounds, and the
\* Learning Outcome category is min(15, learning_points); so for the
\* score in any state, and for the one the score page shows.
C16_LearningPoints ==
    variant = "app" =>
        /\ resource_efficiency.learning_points = recorded_points
        /\ compute_score.breakdown.LearningOutcome = Min(15, recorded_points)
        /\ last.op = "score" /\ last.ok =>
              /\ last.out.reasons.LearningOutcome[3] = recorded_points
              /\ last.out.breakdown.LearningOutcome = Min(15, recorded_points)

\* a score page with more than 15 learning points: Learning Outcome is 15
C16_Witness ==
    /\ variant = "app"
    /\ last.op = "score"
    /\ last.ok
    /\ recorded_points > 15
    /\ last.out.reasons.LearningOutcome[3] > 15
    /\ last.out.breakdown.LearningOutcome = 15

\* the picks of the rounds of s that were run
executed_picks(s) ==
    (IF DOMAIN s.r1.results # {} THEN s.r1.picked ELSE <<>>)
      \o (IF DOMAIN s.r2.results # {} THEN s.r2.picked ELSE <<>>)
      \o (IF DOMAIN s.r3.results # {} THEN s.r3.picked ELSE <<>>)

\* mean fit_score of the picks, in hundredths
mean_fit(s, picks) ==
    IF picks = <<>> THEN 0
    ELSE SumSeq([i \in 1..Len(picks) |->
                   fit_score(picks[i][2], amap(s, picks[i][1]).tags)])
           \div Len(picks)

RECURSIVE fitting_results(_)
fitting_results(rs) ==
    IF rs = <<>> THEN 0
    ELSE (IF fits_type(Head(rs)) THEN 1 ELSE 0) + fitting_results(Tail(rs))

\* C17: the Experiment Fit shown on the score page is the one of the
\* executed entries alone: in app.py the share of fitting results among
\* the recorded results, in app_sim2.py the mean fit of the picks of the
\* rounds that were run (to a hundredth).
C17_FitOverExecuted ==
    (last.op = "score" /\ last.ok) =>
        IF variant = "app"
        THEN last.out.breakdown.ExperimentFit =
               (IF all_results = <<>> THEN 0
                ELSE (25 * fitting_results(all_results)) \div Len(all_results))
        ELSE distance(last.out.score.components.ExperimentFit,
                      mean_fit(S, executed_picks(S))) <= 1

\* the hidden level of an assumption of app_sim2.py as a number
truth_level(truth) == CASE truth = "H" -> 3 [] truth = "M" -> 2 [] truth = "L" -> 1

\* every pick of round 1 is on an assumption no assumption of the idea
\* exceeds in hidden risk
riskiest_first(s) ==
    /\ s.r1.picked # <<>>
    /\ \A i \in 1..Len(s.r1.picked) : \A b \in amap_ids(s) :
          truth_level(amap(s, b).truth)
              <= truth_level(amap(s, s.r1.picked[i][1]).truth)

\* C18: on the score page, a learner who put the assumptions of highest
\* hidden risk first has the maximum of Risk Prioritization: in app.py a
\* ranking equal to the order by hidden risk gives 25, in app_sim2.py
\* round-1 picks all of the highest hidden level give 100.
C18_RiskFromHiddenRisk ==
    (last.op = "score" /\ last.ok) =>
        IF variant = "app"
        THEN (\A n \in 1..Len(ranked) : true_pos(n) = n)
                => last.out.breakdown.RiskPrioritization = 25
        ELSE riskiest_first(S)
                => last.out.score.components.RiskPrioritization = 100

\* the results a run of round k of app.py records for the scheduled
\* entries, given the draws of the generator seeded for the round
replayed(k) ==
    [i \in 1..Len(portfolio[k]) |->
       simulate_result(portfolio[k][i][1], portfolio[k][i][2], prng[100 + k])]

\* the result a run of round rk of app_sim2.py records for pick i, given
\* the draws of the generator seeded by the script
replayed_sim2(rk, i) ==
    simulate_result_sim2(S[rk].picked[i][2], amap(S, S[rk].picked[i][1]),
                         prng[ScriptSeed])

idea_ids ==
    IF idea_key = None THEN {}
    ELSE {IDEAS[idea_key].assumptions[i].id :
            i \in 1..Len(IDEAS[idea_key].assumptions)}

C21_NoCarryOver ==
    [][ (variant = "sim2" /\ last'.op # "restart") =>
          /\ \A r \in RoundKeys :
                S'[r].tokens # S[r].tokens =>
                    last'.op = "add" /\ r = round_key(last'.k)
          /\ last'.op = "add" =>
                (last'.ok <=>
                   EXPERIMENTS_sim2[last'.ek].cost
                      <= tokens_left(S, round_key(last'.k)))
      ]_vars

\* a pick of round 2 was refused for lack of tokens while round 1 had
\* left unspent more than the pick costs
C21_Witness ==
    /\ variant = "sim2"
    /\ last.op = "add" /\ last.k = 2 /\ ~last.ok
    /\ DOMAIN S.r1.results # {}
    /\ tokens_left(S, "r1") >= EXPERIMENTS_sim2[last.ek].cost

\* the costs of the experiments of the picks, added up
RECURSIVE picks_cost(_)
picks_cost(picked) ==
    IF picked = <<>> THEN 0
    ELSE EXPERIMENTS_sim2[Head(picked)[2]].cost + picks_cost(Tail(picked))

\* C22: (app_sim2.py) in every reachable state the tokens entered for a
\* round are the sum of the costs of the experiments of its picks, and
\* tokens_left is the round's allotment less that sum.
C22_LedgerConsistent ==
    variant = "sim2" =>
        \A r \in RoundKeys :
            /\ S[r].tokens = picks_cost(S[r].picked)
            /\ tokens_left(S, r) = TOKENS[r] - picks_cost(S[r].picked)

\* round 1, allotment 8, with a pick costing 4 and one costing 3: 1 left
C22_Witness ==
    /\ variant = "sim2"
    /\ last.op = "add" /\ last.ok /\ last.k = 1
    /\ Len(S.r1.picked) = 2
    /\ {EXPERIMENTS_sim2[S.r1.picked[i][2]].cost : i \in 1..2} = {4, 3}
    /\ TOKENS.r1 = 8
    /\ tokens_left(S, "r1") = 1

\* the weights of the components of app_sim2.py, in hundredths
Weights_sim2 ==
    [AssumptionClarity |-> 30, RiskPrioritization |-> 25,
     ExperimentFit |-> 25, ResourceEfficiency |-> 10, LearningOutcome |-> 10]

\* the maxima of the categories of app.py
Maxima_app ==
    [AssumptionQuality |-> 10, RiskPrioritization |-> 25,
     ExperimentFit |-> 25, ResourceEfficiency |-> 25, LearningOutcome |-> 15]

\* the values of a record of numbers, added up
RECURSIVE sum_over(_, _)
sum_over(f, keys) ==
    IF keys = {} THEN 0
    ELSE LET k == CHOOSE x \in keys : TRUE
         IN  f[k] + sum_over(f, keys \ {k})

\* 100 times the weighted sum of the components c of app_sim2.py
weighted_sum(c) ==
    sum_over([k \in DOMAIN Weights_sim2 |-> Weights_sim2[k] * c[k]],
             DOMAIN Weights_sim2)

\* the total of a score of app.py is the sum of its five categories, 100
\* at most
app_total_is_sum(c) ==
    /\ DOMAIN c.breakdown = DOMAIN Maxima_app
    /\ c.total_score = Min(100, sum_over(c.breakdown, DOMAIN c.breakdown))

\* the total of a score of app_sim2.py is the whole part of the weighted
\* sum of its five components
sim2_total_is_weighted(sc) ==
    /\ DOMAIN sc.components = DOMAIN Weights_sim2
    /\ 100 * sc.total <= weighted_sum(sc.components)
    /\ weighted_sum(sc.components) < 100 * (sc.total + 1)

\* C23: the total is the sum of the category contributions with weights
\* that add up to 1: in app.py the category maxima add up to 100 and the
\* total is min(100, sum of the five categories); in app_sim2.py the
\* weights add up to 1.0 and the total is the weighted sum of the five
\* components, cut to a whole number.  So for the score of every state
\* and for the one the score page shows.
C23_TotalIsWeightedSum ==
    /\ sum_over(Maxima_app, DOMAIN Maxima_app) = 100
    /\ sum_over(Weights_sim2, DOMAIN Weights_sim2) = 100
    /\ variant = "app" =>
          /\ app_total_is_sum(compute_score)
          /\ (last.op = "score" /\ last.ok) => app_total_is_sum(last.out)
    /\ variant = "sim2" =>
          /\ ~scoring_raises(S) => sim2_total_is_weighted(scoring_of(S).score)
          /\ has_score(S) => sim2_total_is_weighted(S.score)

\* a score page of app_sim2.py whose weighted sum has a fraction, every
\* component but Learning Outcome contributing
C23_Witness ==
    /\ variant = "sim2"
    /\ last.op = "score" /\ last.ok
    /\ weighted_sum(S.score.components) % 100 # 0
    /\ S.score.components.RiskPrioritization > 0
    /\ S.score.components.ExperimentFit > 0
    /\ S.score.components.ResourceEfficiency > 0
    /\ S.score.total > 0

\* C24: the hidden risk is static during a run: in app.py no step but
\* set_idea changes ground_truth, which is the truth table of the chosen
\* idea; in app_sim2.py the hidden level is read from the card of the
\* chosen idea, which no step but the choice of an idea or a restart
\* changes; and the success baseline is strictly lower for a higher
\* hidden risk (0.35 < 0.55 < 0.75).
C24_HiddenRiskStatic ==
    [][ /\ last'.op # "set_idea" => ground_truth' = ground_truth
        /\ idea_key' # None => ground_truth' = IDEAS[idea_key'].truth
        /\ last'.op \notin {"pick_idea", "restart"} =>
              S'.idea_key = S.idea_key
        /\ base_success(3) < base_success(2)
        /\ base_success(2) < base_success(1)
        /\ truth_bias("H") < truth_bias("M")
        /\ truth_bias("M") < truth_bias("L")
      ]_vars

\* the score page of app.py after a ranking move and three rounds with a
\* validated assumption: the ground truth is the idea's
C24_Witness ==
    /\ variant = "app"
    /\ last.op = "score"
    /\ ground_truth = IDEAS[idea_key].truth
    /\ \A k \in Rounds : results[k] # <<>>
    /\ \E i \in 1..Len(all_results) : all_results[i].success
    /\ ranked # assumptions

\* C25: run_round of app.py conserves the pool: it adds to tokens_spent
\* the cost of the round's scheduled entries and empties the round's
\* portfolio, leaving the other rounds' portfolios, planned_spend() and
\* pool_remaining() as they were; and a later request is accepted only
\* if its cost fits in the pool less what the rounds run so far spent.
C25_RunConservesPool ==
    [][ variant = "app" =>
          /\ last'.op = "run_round" =>
                /\ tokens_spent' = tokens_spent + entries_cost(last'.k)
                /\ portfolio'[last'.k] = <<>>
                /\ \A j \in Rounds \ {last'.k} : portfolio'[j] = portfolio[j]
                /\ planned_spend' = planned_spend
                /\ pool_remaining' = pool_remaining
          /\ (last'.op = "add" /\ last'.ok) =>
                EXPERIMENTS[last'.ek].cost
                   <= tokens_total - tokens_spent
                        - entries_cost(1) - entries_cost(2) - entries_cost(3)
      ]_vars

\* round 2 has run and the two rounds spent the whole pool: nothing is
\* left for round 3
C25_Witness ==
    /\ variant = "app"
    /\ last.op = "run_round" /\ last.k = 2
    /\ results[1] # <<>> /\ results[2] # <<>>
    /\ tokens_spent = tokens_total
    /\ pool_remaining = 0

\* the "cost" fields of the results rs, added up
RECURSIVE results_cost(_)
results_cost(rs) ==
    IF rs = <<>> THEN 0 ELSE Head(rs).cost + results_cost(Tail(rs))

\* C26: in app.py, in every reachable state tokens_spent is the sum of
\* the "cost" fields of the recorded results of the three rounds, and it
\* is the total_cost Resource Efficiency is computed from, on the score
\* page too.
C26_SpentIsResultsCost ==
    variant = "app" =>
        /\ tokens_spent = results_cost(results[1]) + results_cost(results[2])
                            + results_cost(results[3])
        /\ resource_efficiency.total_cost = tokens_spent
        /\ last.op = "score" =>
              last.out.reasons.ResourceEfficiency[1] = tokens_spent

\* the score page after three rounds of different cost
C26_Witness ==
    /\ variant = "app"
    /\ last.op = "score"
    /\ tokens_spent > 0
    /\ results_cost(results[1]) # results_cost(results[2])
    /\ results_cost(results[3]) > 0
    /\ last.out.reasons.ResourceEfficiency[1] = tokens_spent

\* C27: in app.py the learner at a round-selection stage can always go
\* on to the round's results and from there to the score: the round has
\* a scheduled entry, so that "Run Round" is enabled, or the pool affords
\* some experiment of the catalog, so that an entry can be scheduled.
C27_ScoreReachable ==
    variant = "app" =>
        \A k \in Rounds :
            stage = select_stage(k) =>
                \/ portfolio[k] # <<>>
                \/ \E ek \in DOMAIN EXPERIMENTS : can_afford(EXPERIMENTS[ek].cost)

\* C28: in app.py the stage follows the rounds: at the selection stage
\* of round k every earlier round has results, round k and every later
\* round has none and no round but k has scheduled entries; at the
\* results stage of round k the round has results and no scheduled entry.
C28_StageFollowsRounds ==
    variant = "app" =>
        \A k \in Rounds :
            /\ stage = select_stage(k) =>
                  /\ \A j \in Rounds : j < k => results[j] # <<>>
                  /\ \A j \in Rounds : j >= k => results[j] = <<>>
                  /\ \A j \in Rounds : j # k => portfolio[j] = <<>>
            /\ stage = results_stage(k) =>
                  /\ results[k] # <<>>
                  /\ portfolio[k] = <<>>

\* round 2 is being planned: round 1 has results, round 2 has entries
C28_Witness ==
    /\ variant = "app"
    /\ stage = "r2_select"
    /\ results[1] # <<>>
    /\ portfolio[2] # <<>>
    /\ results[2] = <<>> /\ results[3] = <<>>

\* nothing of a run is recorded: no token spent, no entry scheduled, no
\* result, no validated assumption
run_is_fresh(spent, port, res, progress) ==
    /\ spent = 0
    /\ \A k \in Rounds : port[k] = <<>> /\ res[k] = <<>>
    /\ \A t \in Types : progress[t] = 0

\* C29: set_idea of app.py resets the run: right after it tokens_spent is
\* 0, every round's portfolio and results are empty, validation_progress
\* is 0 for the three types and the stage is "rank"; so the learner who
\* comes to r1_select, after "Restart" too, finds nothing spent, nothing
\* recorded and nothing scheduled from a run before.
C29_SetIdeaResets ==
    [][ variant = "app" =>
          /\ last'.op = "set_idea" =>
                /\ run_is_fresh(tokens_spent', portfolio', results',
                                validation_progress')
                /\ stage' = "rank"
          /\ (stage' = "r1_select" /\ stage # "r1_select") =>
                run_is_fresh(tokens_spent', portfolio', results',
                             validation_progress')
          /\ stage' = "r1_select" =>
                /\ tokens_spent' = 0
                /\ \A k \in Rounds : results'[k] = <<>>
                /\ \A t \in Types : validation_progress'[t] = 0
                /\ portfolio'[2] = <<>> /\ portfolio'[3] = <<>>
      ]_vars

\* "Restart" was pressed on the score page of a run that spent tokens
\* and validated an assumption: the next run starts from this state
C29_Witness ==
    /\ variant = "app"
    /\ last.op = "restart"
    /\ stage = "intro"
    /\ tokens_spent > 0
    /\ results[3] # <<>>
    /\ \E t \in Types : validation_progress[t] > 0

\* the number of assumptions of type t of the chosen idea
type_total(t) ==
    Cardinality({i \in 1..Len(assumptions) : assumptions[i].type = t})

\* C30: in app.py, in every reachable state validation_progress[t] is at
\* most the number of assumptions of type t of the chosen idea, so that
\* the completion shown for a type is at most 100 %.
C30_ProgressBounded ==
    variant = "app" =>
        \A t \in Types : validation_progress[t] <= type_total(t)

\* =====================================================================
\* The ranking screen of app.py on its own
\* =====================================================================
\* sorted(truth.items(), key = (-risk, id)) of an idea, as assumptions
truth_sorted(key) ==
    LET as == IDEAS[key].assumptions
        tr == IDEAS[key].truth
        rank(i) == 1 + Cardinality({j \in 1..Len(as) :
                          \/ tr[as[j].id] > tr[as[i].id]
                          \/ tr[as[j].id] = tr[as[i].id] /\ j < i})
    IN  [p \in 1..Len(as) |-> as[CHOOSE i \in 1..Len(as) : rank(i) = p]]

\* s from its last element to its first
Reverse(s) == [i \in 1..Len(s) |-> s[Len(s) + 1 - i]]

\* the assumptions of type t of an idea first, then the others, each group
\* in the order of the catalog
by_type(key, t) ==
    SelectSeq(IDEAS[key].assumptions, LAMBDA a : a.type = t)
        \o SelectSeq(IDEAS[key].assumptions, LAMBDA a : a.type # t)

\* rankings the learner has arrived at with the up / down buttons (every
\* order of the list is a product of swaps of neighbours): the shuffle,
\* the ground-truth order and its reverse, the order of the catalog, and
\* the orders that put one type first
RankingChoices(key) ==
    Shuffles(key)
        \cup {truth_sorted(key), Reverse(truth_sorted(key)),
              IDEAS[key].assumptions}
        \cup {by_type(key, t) : t \in Types}

\* rows of the ranking screen whose buttons are pressed from there
\* (0-based): the first, one in the middle, and the last
RankRows == {0, 3, 7, 8}

\* the session on the "choose" page, or on the "rank" page of an idea with
\* one of the rankings above
InitRank ==
    /\ variant = "app"
    /\ last = NoLast
    /\ round = 1
    /\ tokens_total = 30
    /\ tokens_spent = 0
    /\ portfolio = [r \in Rounds |-> <<>>]
    /\ results = [r \in Rounds |-> <<>>]
    /\ validation_progress = [t \in Types |-> 0]
    /\ \/ /\ stage = "choose"
          /\ idea_key = None
          /\ assumptions = <<>>
          /\ ranked = <<>>
          /\ ground_truth = <<>>
       \/ /\ stage = "rank"
          /\ idea_key \in DOMAIN IDEAS
          /\ assumptions \in Shuffles(idea_key)
          /\ ranked \in RankingChoices(idea_key)
          /\ ground_truth = IDEAS[idea_key].truth
    /\ dnd_list = None
    /\ S = init_state_sim2
    /\ backs = 0
    /\ prng = [s \in RoundSeeds |-> <<0, 0>>]
    /\ call = NoCall

NextRank ==
    \/ \E key \in DOMAIN IDEAS : set_idea(key)
    \/ \E idx \in RankRows, direction \in {-1, 1} : move_item(idx, direction)

SpecRank == InitRank /\ [][NextRank]_vars

\* =====================================================================
\* C31 .. C38
\* =====================================================================
\* b holds the elements of a, each once
is_permutation(a, b) ==
    /\ Len(a) = Len(b)
    /\ \A i \in 1..Len(a) :
          Cardinality({j \in 1..Len(b) : b[j] = a[i]}) = 1

\* from ranking r, the move of row idx (0-based) in the given direction
\* gave ranking r2: nothing when the neighbour is outside the list, the
\* swap of the row and its neighbour otherwise
moved_as_claimed(r, r2, idx, direction) ==
    LET new_idx == idx + direction
    IN  IF new_idx < 0 \/ new_idx >= Len(r)
        THEN r2 = r
        ELSE /\ Len(r2) = Len(r)
             /\ r2[idx + 1] = r[new_idx + 1]
             /\ r2[new_idx + 1] = r[idx + 1]
             /\ \A i \in 1..Len(r) :
                   i \notin {idx + 1, new_idx + 1} => r2[i] = r[i]

\* C31: in app.py the ranked list is always a permutation of the chosen
\* idea's assumptions; a move_item call whose target index is outside the
\* list (row 0 up, last row down) leaves the ranking as it was, and a call
\* inside the list swaps the row with its neighbour and nothing else.
C31_MovePermutes ==
    /\ [](variant = "app" => is_permutation(assumptions, ranked))
    /\ [][ last'.op = "move_item" =>
              moved_as_claimed(ranked, ranked', last'.k, last'.out[1]) ]_vars

\* after set_idea the first two rows were swapped, and the last press was
\* the down button of the last row
C31_Witness ==
    /\ variant = "app" /\ stage = "rank"
    /\ last.op = "move_item"
    /\ last.k = Len(ranked) - 1
    /\ last.out = <<1>>
    /\ ranked[1] = assumptions[2]
    /\ ranked[2] = assumptions[1]

\* the place (1-based) of assumption id in an order of the assumptions
truth_place(order, id) ==
    CHOOSE p \in 1..Len(order) : order[p].id = id

\* the points of the claim for ranking r, doubled, given the ground-truth
\* order (hidden risk descending, equal risks by id): 3 / 2 / 1 / 0 for a
\* distance of 0 / 1 / 2 / more, times 2.0 for the positions 1-3, 1.5 for
\* 4-6 and 1.0 from 7 on
claimed_points(order, r) ==
    SumSeq([i \in 1..Len(r) |->
        LET dist == distance(i, truth_place(order, r[i].id))
            base == IF dist = 0 THEN 3 ELSE IF dist = 1 THEN 2
                    ELSE IF dist = 2 THEN 1 ELSE 0
            w2 == IF i <= 3 THEN 4 ELSE IF i <= 6 THEN 3 ELSE 2
        IN  base * w2])

\* the most points a ranking of n assumptions can have, doubled
claimed_max(n) ==
    SumSeq([i \in 1..n |->
        3 * (IF i <= 3 THEN 4 ELSE IF i <= 6 THEN 3 ELSE 2)])

\* C32: in app.py, for the ranking of every state of the ranking screen,
\* the Risk Prioritization score is 25 x achieved / max rounded to the
\* nearest integer, where achieved adds 3 / 2 / 1 / 0 base points for a
\* distance of 0 / 1 / 2 / more from the ground-truth rank (risk
\* descending, ties by id), weighted 2.0 / 1.5 / 1.0 by position; it lies
\* in 0..25, it is the value compute_score reports, and the ground-truth
\* order itself scores exactly 25.
C32_RiskScoreAsClaimed ==
    (variant = "app" /\ stage = "rank") =>
        LET rp == risk_prioritization_score
            got == claimed_points(truth_sorted(idea_key), ranked)
            most == claimed_max(Len(ranked))
        IN  /\ rp.achieved = got
            /\ rp.max_points = most
            /\ 2 * rp.score * most - 50 * got <= most
            /\ 50 * got - 2 * rp.score * most <= most
            /\ rp.score \in 0..25
            /\ compute_score.breakdown.RiskPrioritization = rp.score
            /\ ranked = truth_sorted(idea_key) => rp.score = 25

\* the learner has moved rows and the ranking is the ground-truth order
C32_Witness ==
    /\ variant = "app" /\ stage = "rank"
    /\ last.op = "move_item"
    /\ ranked = truth_sorted(idea_key)
    /\ risk_prioritization_score.score = 25

\* the hidden risk levels of ranking r, row by row
risk_profile(r) == [i \in 1..Len(r) |-> ground_truth[r[i].id]]

\* C33: in app.py, a move that exchanges assumptions of equal hidden risk,
\* so that the ranking shows the same risk levels row by row as before,
\* leaves the Risk Prioritization score as it was.
C33_TiesScoreAlike ==
    [][ (/\ last'.op = "move_item"
         /\ risk_profile(ranked') = risk_profile(ranked))
            => risk_prioritization_score'.score
                  = risk_prioritization_score.score ]_vars

\* C34: Resource Efficiency of app.py, for every total cost and number of
\* learning points a history can have: with learning points the score is
\* 25 x min(1, 3 x learning_points / total_cost) rounded to the nearest
\* integer (an exact half goes to the even neighbour, as Python's round
\* does), it lies in 0..25, it is the full 25 whenever
\* total_cost <= 3 x learning_points, and with the same learning points no
\* higher total cost scores more.
C34_EfficiencyAsClaimed ==
    (call.fn = "resource_efficiency" /\ call.done
        /\ call.learning_points > 0) =>
        LET cost == call.total_cost
            lp == call.learning_points
        IN  /\ call.out \in 0..25
            /\ cost <= 3 * lp => call.out = 25
            /\ cost > 3 * lp =>
                  /\ 2 * call.out * cost - 150 * lp <= cost
                  /\ 150 * lp - 2 * call.out * cost <= cost
                  /\ 2 * call.out * cost - 150 * lp = cost
                        => call.out % 2 = 0
                  /\ 150 * lp - 2 * call.out * cost = cost
                        => call.out % 2 = 0
            /\ \A dearer \in cost..MaxCost :
                  resource_efficiency_score(dearer, lp) <= call.out

\* one learning point for 6 tokens: 12.5 points, returned as 12
C34_Witness ==
    /\ call.fn = "resource_efficiency" /\ call.done
    /\ call.total_cost = 6
    /\ call.learning_points = 1
    /\ call.out = 12

\* the types among the first five rows of ranking r
top5_types(r) == {r[i].type : i \in {n \in 1..Len(r) : n <= 5}}

\* C35: in app.py, for every idea and every ranking of the ranking screen
\* the first five rows hold at least two types, as any five assumptions of
\* the idea do, and the Assumption Quality the score page would show for
\* it is 10.
C35_QualityAlwaysTen ==
    (variant = "app" /\ stage = "rank") =>
        /\ Cardinality(top5_types(ranked)) >= 2
        /\ compute_score.breakdown.AssumptionQuality = 10
        /\ \A five \in SUBSET (1..Len(assumptions)) :
              Cardinality(five) = 5 =>
                  Cardinality({assumptions[i].type : i \in five}) >= 2

\* the learner has moved rows and the first five rows hold as few types as
\* they can: three assumptions of one type and two of another
C35_Witness ==
    /\ variant = "app" /\ stage = "rank"
    /\ last.op = "move_item"
    /\ Cardinality(top5_types(ranked)) = 2
    /\ compute_score.breakdown.AssumptionQuality = 10

\* the buttons of the pages of app_sim2.py that lead to a later stage
ProceedOps == {"start", "pick_idea", "next", "run_round", "skip", "score"}

\* C36: in app_sim2.py a click on the stage bar button of stage k sets the
\* stage to k when k is the current stage or an earlier one and leaves the
\* stage alone otherwise; the stage bar never advances the stage, and every
\* step that enters a later stage is a page's own proceed / run button.
C36_StageBarBackOnly ==
    [][ variant = "sim2" =>
          /\ last'.op = "nav" =>
                /\ S'.stage = IF last'.k <= stage_index(S.stage)
                              THEN STAGES[last'.k] ELSE S.stage
                /\ stage_index(S'.stage) <= stage_index(S.stage)
          /\ stage_index(S'.stage) > stage_index(S.stage)
                => last'.op \in ProceedOps
      ]_vars

\* the button of "r1_select" was clicked on an earlier page, which is
\* still the page shown
C36_Witness ==
    /\ variant = "sim2"
    /\ last.op = "nav"
    /\ last.k = stage_index("r1_select")
    /\ S.stage \in {"intro", "idea", "rank"}

\* C37: in app_sim2.py the "rank" page always offers its way forward:
\* whenever the stage is "rank", "Proceed to Round 1" can be pressed, so
\* that the stages from "r1_select" on can be entered.
C37_RankOffersProceed ==
    (variant = "sim2" /\ S.stage = "rank") => ENABLED S_RankProceed

\* C38: in app_sim2.py, whenever the stage is "score" a score is stored,
\* and the stored score and reasons are what compute_scoring gives for the
\* picks, results, statuses and ranking the session holds at that moment.
C38_StoredScoreCurrent ==
    (variant = "sim2" /\ S.stage = "score") =>
        /\ has_score(S)
        /\ ~scoring_raises(S)
        /\ S.score = scoring_of(S).score
        /\ S.reasons = scoring_of(S).reasons
        /\ compute_scoring(S) = S

\* the learner went back from the score page, and has submitted again: the
\* score page shows the score of a history with picks and results
C38_Witness ==
    /\ variant = "sim2" /\ S.stage = "score"
    /\ backs > 0
    /\ last.op = "score"
    /\ has_score(S)
    /\ S.r1.picked # <<>>
    /\ DOMAIN S.r1.results # {}

====
